---- MODULE Spec2Model ----
(***************************************************************************)
(* TissueMAPS (tmlib): the storage-access layer of tmlib/models/utils.py   *)
(* (sessions, raw connections, get_or_create, the cascading bulk delete,   *)
(* first-time schema creation and the range partitioning of distributed    *)
(* tables), the batch store, the job factory and the log lookup of         *)
(* tmlib/workflow/api.py, and the job descriptions and run_job of          *)
(* tmlib/jterator/api.py with the module runs of tmlib/jterator/module.py. *)
(*                                                                         *)
(* The module holds several specifications over one set of variables; each *)
(* specification moves the variables of its own part and leaves the rest   *)
(* at their initial values:                                                *)
(*   SpecShard   _customize_distributed_tables                             *)
(*   SpecEnter   entering and leaving sessions and connections             *)
(*   SpecGoc     session.add and get_or_create inside MainSession scopes   *)
(*   SpecTx      Query.delete inside session scopes                        *)
(*   SpecBatch   write_batch_files and read_batch_file                     *)
(*   SpecPin     get_shard_id on connections of the experiment             *)
(*   SpecSeq     get_shard_specific_unique_id                              *)
(*   SpecAuto    statements run through raw connections                    *)
(*   SpecRetry   get_or_create against a concurrent Query.delete           *)
(*   SpecCreate  create_job_descriptions                                   *)
(*   SpecJobs    create_run_jobs                                           *)
(*   SpecLoad    get_batches_from_files                                    *)
(*   SpecLog     get_log_output_from_files                                 *)
(*   SpecDrop    drop_and_recreate inside session scopes                   *)
(*   SpecList    list_input_files and list_output_files                    *)
(*   SpecEngine  set_pool_size and create_db_engine                        *)
(*   SpecRun     run_job of the jterator step                              *)
(*   SpecRewrite write_batch_files called again with other batches         *)
(***************************************************************************)
EXTENDS Integers, Sequences, FiniteSets, TLC

(***************************************************************************)
(* Bounds of the model.                                                    *)
(***************************************************************************)
\* largest number of shards a distributed table is created with
MaxShards == 4

\* most get_or_create calls one caller makes
MaxCalls == 2
\* most instances one caller adds to its session with session.add
MaxAdds == 1

NoValue == "None"

(***************************************************************************)
(* Arithmetic on the 64-bit key space.  Python integers do not overflow;   *)
(* TLC's are 32 bits wide, so a key is a big-endian sequence of NLimbs     *)
(* limbs of base LimbBase (three decimal digits per limb).                 *)
(***************************************************************************)
LimbBase == 1000
NLimbs == 7

\* total_max_value = 9223372036854775807  # positive bigint range
total_max_value == <<9, 223, 372, 36, 854, 775, 807>>

BigZero == [k \in 1..NLimbs |-> 0]

RECURSIVE BigDivStep(_, _, _, _, _)
BigDivStep(a, n, k, rem, acc) ==
    IF k > Len(a) THEN acc
    ELSE LET cur == rem * LimbBase + a[k]
         IN  BigDivStep(a, n, k + 1, cur % n, Append(acc, cur \div n))

\* a / n for Python 2 integers a >= 0, n > 0: floor division
BigDiv(a, n) == BigDivStep(a, n, 1, 0, <<>>)

RECURSIVE BigMulStep(_, _, _, _, _)
BigMulStep(a, m, k, carry, acc) ==
    IF k = 0 THEN acc
    ELSE LET cur == a[k] * m + carry
         IN  BigMulStep(a, m, k - 1, cur \div LimbBase, <<cur % LimbBase>> \o acc)

\* m * a, for a small m >= 0 (the product stays below LimbBase^NLimbs)
BigMul(m, a) == BigMulStep(a, m, Len(a), 0, <<>>)

\* a + m, for a small m >= 0
BigAdd(a, m) == BigMulStep(a, 1, Len(a), m, <<>>)

RECURSIVE BigLessFrom(_, _, _)
BigLessFrom(a, b, k) ==
    IF k > Len(a) THEN FALSE
    ELSE IF a[k] < b[k] THEN TRUE
    ELSE IF a[k] > b[k] THEN FALSE
    ELSE BigLessFrom(a, b, k + 1)

BigLess(a, b) == BigLessFrom(a, b, 1)
BigLeq(a, b) == a = b \/ BigLess(a, b)

(***************************************************************************)
(* The distributed tables and their shards.                                *)
(***************************************************************************)
\* tables_to_distribute_by_range
tables_to_distribute_by_range ==
    {"mapobjects", "mapobject_segmentations", "feature_values", "label_values"}

\* The shard ids the cluster gave the n shards of a table when it was created:
\* n consecutive values of one cluster-wide counter.
TableBase(t) ==
    CASE t = "mapobjects" -> 100
      [] t = "mapobject_segmentations" -> 200
      [] t = "feature_values" -> 300
      [] t = "label_values" -> 400

NewShards(t, n) ==
    {[shardid |-> TableBase(t) + k, shardminvalue |-> NoValue,
      shardmaxvalue |-> NoValue] : k \in 1..n}

\* SELECT shardid ... ORDER BY shardid: the ids of a set of shard rows, ascending
RECURSIVE OrderByShardid(_)
OrderByShardid(rows) ==
    IF rows = {} THEN <<>>
    ELSE LET first == CHOOSE r \in rows : \A q \in rows : r.shardid <= q.shardid
         IN  <<first.shardid>> \o OrderByShardid(rows \ {first})

\* batch_size = total_max_value / n
batch_size(n) == BigDiv(total_max_value, n)

\* min_value = i * batch_size + 1   (i counts from 0)
min_value(i, n) == BigAdd(BigMul(i, batch_size(n)), 1)

\* max_value = (i+1) * batch_size
max_value(i, n) == BigMul(i + 1, batch_size(n))

\* The rows of pg_dist_shard of one table after the loop over its shards.
CustomizedShards(rows) ==
    LET shards == OrderByShardid(rows)
        n == Len(shards)
    IN  {[shardid |-> shards[k], shardminvalue |-> min_value(k - 1, n),
          shardmaxvalue |-> max_value(k - 1, n)] : k \in 1..n}

\* The sequences CREATE SEQUENCE {schema}.{table}_id_seq_{shard} makes for a table.
ShardSequences(t, rows) ==
    {[table |-> t, shard |-> r.shardid, minvalue |-> r.shardminvalue,
      maxvalue |-> r.shardmaxvalue, last |-> << >>] : r \in CustomizedShards(rows)}

(***************************************************************************)
(* Callers, connection kinds and the connection pool.                      *)
(***************************************************************************)
Callers == {"c1", "c2"}

\* the experiment whose schema the callers of SpecEnter enter
ExpId == 7

SessionKinds == {"MainSession", "ExperimentSession"}
ConnectionKinds == {"MainConnection", "ExperimentConnection"}
RawKinds == ConnectionKinds \cup {"ExperimentWorkerConnection"}
ExperimentKinds == {"ExperimentSession", "ExperimentConnection"}
Kinds == SessionKinds \cup ConnectionKinds

\* POOL_SIZE = 5
POOL_SIZE == 5

\* create_db_engine: max_overflow of the QueuePool for a pool size
overflow_size(pool_size) ==
    IF pool_size > 1 THEN pool_size * 2
    ELSE IF pool_size = 1 THEN 1
    ELSE -1    \* ValueError('Pool size must be a positive integer.')

\* the most connections the QueuePool hands out at one time
PoolCapacity == POOL_SIZE + overflow_size(POOL_SIZE)

\* number of shards a distributed table gets when it is created (SpecEnter)
ShardCount == 2

VARIABLES
    pg_dist_shard,      \* table -> its rows of pg_dist_shard
    partmethod,         \* table -> "h" (hash) or "r" (range)
    sequences,          \* the shard-scoped id sequences that exist
    schemas,            \* ids of the experiments whose schema exists
    tablesIn,           \* ids of the experiments whose schema holds its tables
    customizeRuns,      \* how often _customize_distributed_tables was started
    checkedOut,         \* connections checked out of the engine's pool
    pc,                 \* caller -> where the caller is in its scope
    kind,               \* caller -> the kind of scope it entered last
    exists,             \* caller -> what _create_schema_if_not_exists found
    err,                \* caller -> the error its last scope raised, or NoValue
    table,              \* the committed rows of the database
    txIns,              \* caller -> rows its open transaction inserted
    txDel,              \* caller -> rows its open transaction deleted
    txDrop,             \* caller -> schemas its open transaction dropped
    fs,                 \* the locations (files, directories) that exist on disk
    made,               \* caller -> how many instances it has added with session.add
    scopeRows,          \* caller -> the rows it made since it entered its scope
    exitHow,            \* caller -> the path its last __exit__ took
    gocPc,              \* caller -> where it is in get_or_create
    gocKey,             \* caller -> the kwargs of its get_or_create call
    gocRet,             \* caller -> the instance of its get_or_create call
    gocPath,            \* caller -> how its get_or_create call got the instance
    gocCalls,           \* caller -> how many get_or_create calls it has made
    lastOp,             \* caller -> its last Query.delete call in the open scope
    given,              \* the batches as create_batches made them
    batches,            \* the batches object the step holds (write changes it in place)
    batchFiles,         \* the batch files on disk: file name and content
    readBack,           \* what the last read_batch_file call returned or raised
    batchErr,           \* the error write_batch_files raised, or NoValue
    bpc,                \* "init" before write_batch_files is called, "written" after
    conn,               \* caller -> the raw connection object it holds
    shardCall,          \* caller -> its last get_shard_id call
    draws,              \* the values get_shard_specific_unique_id returned, in order
    executed,           \* the statements run through raw connections and how they ended
    project,            \* the image files and the pipeline create_job_descriptions reads
    joblist,            \* what create_job_descriptions returned or raised
    runJobs,            \* the last create_run_jobs call: its arguments and what came of it
    loaded,             \* what the last get_batches_from_files call returned or raised
    logFiles,           \* the files in the log directory of the step
    logOut,             \* the last get_log_output_from_files call and what came of it
    dropOp,             \* caller -> its last drop_and_recreate call in the open scope
    listed,             \* the last list_input_files / list_output_files call
    poolSize,           \* the module global POOL_SIZE of the process
    engines,            \* DATABASE_ENGINES: database URI -> the engine cached for it
    engCalls,           \* the create_db_engine calls of the process, in order
    jobRun,             \* the run_job call of the process: where it is and what it did
    pool,               \* the idle connections of the pool with the schema in their path
    searchPath          \* caller -> the search path of the connection it checked out

shardVars == <<pg_dist_shard, partmethod, sequences>>
schemaVars == <<schemas, tablesIn, customizeRuns>>
scopeVars == <<checkedOut, pc, kind, exists, err, exitHow>>
txVars == <<txIns, txDel, txDrop>>
dbVars == <<table, fs>>
histVars == <<made, scopeRows>>
gocVars == <<gocPc, gocKey, gocRet, gocPath, gocCalls>>
delVars == <<lastOp>>
batchVars == <<given, batches, batchFiles, readBack, batchErr, bpc>>
connVars == <<conn, shardCall, draws, executed>>
apiVars == <<project, joblist, runJobs, loaded, logFiles, logOut>>
engVars == <<poolSize, engines, engCalls>>
poolVars == <<pool, searchPath>>
extVars == <<dropOp, listed, engVars, jobRun, poolVars>>
extNotDrop == <<listed, engVars, jobRun, poolVars>>
extNotList == <<dropOp, engVars, jobRun, poolVars>>
extNotEng == <<dropOp, listed, jobRun, poolVars>>
extNotRun == <<dropOp, listed, engVars, poolVars>>
extNotPool == <<dropOp, listed, engVars, jobRun>>
vars == <<pg_dist_shard, partmethod, sequences, schemas, tablesIn, customizeRuns,
          checkedOut, pc, kind, exists, err, table, txIns, txDel, txDrop, fs,
          made, scopeRows, exitHow, gocPc, gocKey, gocRet, gocPath, gocCalls, lastOp,
          given, batches, batchFiles, readBack, batchErr, bpc,
          conn, shardCall, draws, executed, project, joblist, runJobs, loaded, logFiles, logOut,
          dropOp, listed, poolSize, engines, engCalls, jobRun, pool, searchPath>>

\* locations = list(): a path is a sequence of names; a null location is the empty one
NoLocation == << >>

\* no Query.delete call was made in the scope
NoOp == [n |-> 0, cls |-> NoValue, matched |-> {}, raised |-> NoValue,
         before |-> {}, aborted |-> FALSE]

ShardIdle ==
    /\ pg_dist_shard = [t \in tables_to_distribute_by_range |-> {}]
    /\ partmethod = [t \in tables_to_distribute_by_range |-> "h"]
    /\ sequences = {}

ScopeIdle ==
    /\ checkedOut = 0
    /\ pc = [c \in Callers |-> "out"]
    /\ kind = [c \in Callers |-> NoValue]
    /\ exists = [c \in Callers |-> FALSE]
    /\ err = [c \in Callers |-> NoValue]
    /\ exitHow = [c \in Callers |-> NoValue]

TxIdle ==
    /\ txIns = [c \in Callers |-> {}]
    /\ txDel = [c \in Callers |-> {}]
    /\ txDrop = [c \in Callers |-> {}]
    /\ made = [c \in Callers |-> 0]
    /\ scopeRows = [c \in Callers |-> {}]
    /\ lastOp = [c \in Callers |-> NoOp]

\* nothing was read yet
NoRead == [file |-> [job |-> NoValue, id |-> 0], err |-> NoValue, batch |-> << >>]

\* a step without batches
NoBatches == [run |-> << >>, collect |-> << >>]

BatchIdle ==
    /\ given = NoBatches
    /\ batches = NoBatches
    /\ batchFiles = {}
    /\ readBack = NoRead
    /\ batchErr = NoValue
    /\ bpc = "init"

\* no raw connection object was made
NoConnection == [kind |-> NoValue, host |-> NoValue, shard_lut |-> {}]

\* get_shard_id was not called
NoShardCall == [n |-> 0, model |-> NoValue, ret |-> 0, raised |-> NoValue]

NoProject == [cycles |-> << >>, layer_names |-> {}, pipeline |-> << >>]
NoJoblist == [run |-> << >>, collect |-> << >>, raised |-> NoValue, called |-> FALSE]
NoLogOut == [called |-> FALSE, job_id |-> 0, raised |-> NoValue, log |-> << >>]
NoLoaded == [called |-> FALSE, raised |-> NoValue, run |-> << >>, collect |-> << >>]
NoRunJobs == [called |-> FALSE, args |-> << >>, raised |-> NoValue, jobs |-> << >>]
ApiIdle ==
    /\ project = NoProject
    /\ joblist = NoJoblist
    /\ runJobs = NoRunJobs
    /\ loaded = NoLoaded
    /\ logFiles = {}
    /\ logOut = NoLogOut

\* drop_and_recreate was not called
NoDrop == [n |-> 0, model |-> NoValue, raised |-> NoValue, at |-> "idle", rows |-> {},
           locations |-> {}, before |-> {}]

\* neither list_input_files nor list_output_files was called
NoListed == [called |-> NoValue, raised |-> NoValue, files |-> << >>]

\* the database URIs of the process
Uris == {"postgresql://main", "postgresql://other"}

\* no engine
NoEngine == [id |-> 0, uri |-> NoValue, pool_size |-> 0, max_overflow |-> 0]

\* DATABASE_ENGINES = {}, POOL_SIZE = 5 and no create_db_engine call yet
EngIdle ==
    /\ poolSize = POOL_SIZE
    /\ engines = [uri \in Uris |-> NoEngine]
    /\ engCalls = << >>

\* run_job was not called
NoJobRun == [state |-> "idle", job_id |-> 0, at |-> 0, executed |-> << >>, logs |-> {},
             exit |-> << >>, raised |-> NoValue]

\* The search path of a connection, as the schemas that follow 'public' in it: a
\* new connection has none, _set_search_path puts the schema of the experiment.
DefaultPath == {}
SearchPaths == {DefaultPath, {ExpId}}

\* the caller holds no connection
NoPath == [now |-> NoValue, kept |-> NoValue]

\* no connection was made yet
PoolIdle ==
    /\ pool = 0
    /\ searchPath = [c \in Callers |-> NoPath]

ExtIdle ==
    /\ dropOp = [c \in Callers |-> NoDrop]
    /\ listed = NoListed
    /\ EngIdle
    /\ PoolIdle
    /\ jobRun = NoJobRun

ConnIdle ==
    /\ conn = [c \in Callers |-> NoConnection]
    /\ shardCall = [c \in Callers |-> NoShardCall]
    /\ draws = << >>
    /\ executed = {}

GocIdle ==
    /\ gocPc = [c \in Callers |-> "idle"]
    /\ gocKey = [c \in Callers |-> NoValue]
    /\ gocRet = [c \in Callers |-> NoValue]
    /\ gocPath = [c \in Callers |-> NoValue]
    /\ gocCalls = [c \in Callers |-> 0]

(***************************************************************************)
(* SpecShard: the tables of one schema exist, each with 1..MaxShards       *)
(* shards, and _customize_distributed_tables runs over the tables one at a *)
(* time, in any order (the tables are a Python set).                       *)
(***************************************************************************)
InitShard ==
    /\ pg_dist_shard \in [tables_to_distribute_by_range ->
                            UNION {{NewShards(t, n) : n \in 1..MaxShards} :
                                   t \in tables_to_distribute_by_range}]
    /\ \A t \in tables_to_distribute_by_range :
          \E n \in 1..MaxShards : pg_dist_shard[t] = NewShards(t, n)
    /\ partmethod = [t \in tables_to_distribute_by_range |-> "h"]
    /\ sequences = {}
    /\ schemas = {ExpId}
    /\ tablesIn = {ExpId}
    /\ customizeRuns = 1
    /\ ScopeIdle
    /\ TxIdle
    /\ GocIdle
    /\ ConnIdle
    /\ ExtIdle
    /\ ApiIdle
    /\ BatchIdle
    /\ table = {}
    /\ fs = {}

\* One pass of the loop "for table_name in tables_to_distribute_by_range".
CustomizeTable(t) ==
    /\ partmethod[t] = "h"
    /\ partmethod' = [partmethod EXCEPT ![t] = "r"]
    /\ pg_dist_shard' = [pg_dist_shard EXCEPT ![t] = CustomizedShards(@)]
    /\ sequences' = sequences \cup ShardSequences(t, pg_dist_shard[t])
    /\ UNCHANGED <<apiVars, extVars, connVars, batchVars, delVars, schemaVars, scopeVars, txVars, dbVars, histVars, gocVars>>

NextShard == \E t \in tables_to_distribute_by_range : CustomizeTable(t)

SpecShard == InitShard /\ [][NextShard]_vars

\* C4 (as claimed): for every shard count N >= 1 the ranges of the N shards of a
\* customized table, in ascending shard-id order, start at 1, are contiguous
\* (min_(i+1) = max_i + 1) and end at 2^63-1.
C4_RangesCoverKeySpace ==
    \A t \in tables_to_distribute_by_range :
       partmethod[t] = "r" =>
          LET ids == OrderByShardid(pg_dist_shard[t])
              n == Len(ids)
              row(k) == CHOOSE r \in pg_dist_shard[t] : r.shardid = ids[k]
          IN  /\ row(1).shardminvalue = BigAdd(BigZero, 1)
              /\ \A k \in 1..(n - 1) :
                    row(k + 1).shardminvalue = BigAdd(row(k).shardmaxvalue, 1)
              /\ row(n).shardmaxvalue = total_max_value

(***************************************************************************)
(* Entering and leaving a scope.  Callers run concurrently; each statement *)
(* a scope sends to the database is one step and takes effect at once.     *)
(***************************************************************************)
Release(c) ==
    /\ checkedOut' = checkedOut - 1
    /\ pc' = [pc EXCEPT ![c] = "out"]

\* The scopes on the engine of the main database (cfg.db_master_uri); a worker
\* connection has the engine, and so the pool, of its worker.
OnMainEngine(k) == k # "ExperimentWorkerConnection"

\* the connections of that engine the callers hold
Held == Cardinality({c \in Callers : pc[c] # "out" /\ OnMainEngine(kind[c])})

\* engine.connect() / engine.raw_connection(): the QueuePool hands out an idle
\* connection as it was returned, search path included, and makes a new one when
\* it has none.  The pool never has more connections than there were callers at
\* a time: a connection with the default search path, idle or new, can only come
\* when the connections held and the idle ones with the schema in their path are
\* not all there can be.
Checkout(c, k) ==
    IF OnMainEngine(k)
    THEN \E p \in SearchPaths :
            /\ IF p = DefaultPath THEN pool = 0 \/ pool + Held < Cardinality(Callers)
               ELSE pool > 0
            /\ pool' = IF p = DefaultPath THEN pool ELSE pool - 1
            /\ searchPath' = [searchPath EXCEPT ![c] = [now |-> p, kept |-> p]]
    ELSE UNCHANGED poolVars

\* connection.close(): the connection goes back to the pool as it is, after the
\* rollback of what is pending on it; p is the search path it is left with.  The
\* pool keeps at most pool_size idle connections and closes the others.
Checkin(c, p) ==
    IF OnMainEngine(kind[c])
    THEN /\ pool' = IF p # DefaultPath /\ pool < POOL_SIZE THEN pool + 1 ELSE pool
         /\ searchPath' = [searchPath EXCEPT ![c] = NoPath]
    ELSE UNCHANGED poolVars

\* COMMIT on the connection c holds: a SET of the transaction stays in effect
PathCommitted(c) == searchPath' = [searchPath EXCEPT ![c].kept = searchPath[c].now]

\* ROLLBACK on the connection c holds: a SET of the transaction is undone
PathRolledBack(c) == searchPath' = [searchPath EXCEPT ![c].now = searchPath[c].kept]

\* The exception leaves the method: nothing after the raising line runs.
Propagate(c, e) ==
    /\ err' = [err EXCEPT ![c] = e]
    /\ pc' = [pc EXCEPT ![c] = "out"]

\* engine.connect() / engine.raw_connection(), the first line of every __enter__;
\* MainSession.__enter__ and _Connection.__enter__ then hand the scope out.
Connect(c, k) ==
    /\ pc[c] = "out"
    /\ checkedOut < PoolCapacity
    /\ checkedOut' = checkedOut + 1
    /\ kind' = [kind EXCEPT ![c] = k]
    /\ err' = [err EXCEPT ![c] = NoValue]
    /\ exists' = [exists EXCEPT ![c] = FALSE]
    /\ exitHow' = [exitHow EXCEPT ![c] = NoValue]
    /\ pc' = [pc EXCEPT ![c] = IF k \in ExperimentKinds THEN "select_exists" ELSE "open"]
    /\ lastOp' = [lastOp EXCEPT ![c] = NoOp]
    /\ Checkout(c, k)
    /\ UNCHANGED <<apiVars, extNotPool, connVars, batchVars, shardVars, schemaVars, txVars, dbVars, histVars, gocVars>>

\* _create_schema_if_not_exists: SELECT EXISTS(... pg_namespace ...)
SelectSchemaExists(c) ==
    /\ pc[c] = "select_exists"
    /\ exists' = [exists EXCEPT ![c] = ExpId \in schemas]
    /\ pc' = [pc EXCEPT ![c] = IF ExpId \in schemas THEN "set_search_path"
                                ELSE "create_schema"]
    /\ UNCHANGED <<apiVars, extVars, connVars, batchVars, delVars, shardVars, schemaVars, checkedOut, kind, err, exitHow, txVars, dbVars,
                   histVars, gocVars>>

\* _create_schema_if_not_exists: CREATE SCHEMA IF NOT EXISTS
CreateSchema(c) ==
    /\ pc[c] = "create_schema"
    /\ schemas' = schemas \cup {ExpId}
    /\ pc' = [pc EXCEPT ![c] = "create_tables"]
    /\ UNCHANGED <<apiVars, extVars, connVars, batchVars, delVars, shardVars, tablesIn, customizeRuns, checkedOut, kind, exists, err,
                   exitHow, txVars, dbVars, histVars, gocVars>>

\* _create_experiment_db_tables: create_all() makes the tables that are missing;
\* a distributed table comes with its ShardCount hash shards.
CreateTables(c) ==
    /\ pc[c] = "create_tables"
    /\ IF ExpId \in tablesIn
       THEN UNCHANGED <<tablesIn, pg_dist_shard>>
       ELSE /\ tablesIn' = tablesIn \cup {ExpId}
            /\ pg_dist_shard' = [t \in tables_to_distribute_by_range |->
                                    NewShards(t, ShardCount)]
    /\ pc' = [pc EXCEPT ![c] = "customize"]
    /\ UNCHANGED <<partmethod, sequences, schemas, customizeRuns, checkedOut, kind,
                   exists, err, exitHow, txVars, dbVars, histVars, gocVars, delVars,
                   batchVars, connVars, apiVars, extVars>>

\* The whole of _customize_distributed_tables, as ExperimentSession.__enter__ calls
\* it.  CREATE SEQUENCE has no IF NOT EXISTS: it raises when the sequence is there.
CustomizeInSession(c) ==
    /\ pc[c] = "customize"
    /\ kind[c] = "ExperimentSession"
    /\ customizeRuns' = customizeRuns + 1
    /\ IF sequences # {}
       THEN /\ Propagate(c, "ProgrammingError")
            /\ searchPath' = [searchPath EXCEPT ![c] = NoPath]
            /\ UNCHANGED <<shardVars>>
       ELSE /\ partmethod' = [t \in tables_to_distribute_by_range |-> "r"]
            /\ pg_dist_shard' = [t \in tables_to_distribute_by_range |->
                                    CustomizedShards(pg_dist_shard[t])]
            /\ sequences' = UNION {ShardSequences(t, pg_dist_shard[t]) :
                                   t \in tables_to_distribute_by_range}
            /\ pc' = [pc EXCEPT ![c] = "set_search_path"]
            /\ UNCHANGED <<err, searchPath>>
    /\ UNCHANGED <<schemas, tablesIn, checkedOut, kind, exists, exitHow, txVars, dbVars,
                   histVars, gocVars, delVars, batchVars, connVars, apiVars, extNotPool, pool>>

\* ExperimentConnection.__enter__ passes the name "connection", which is bound
\* neither in the method nor in the module: evaluating the call raises NameError.
CustomizeInConnection(c) ==
    /\ pc[c] = "customize"
    /\ kind[c] = "ExperimentConnection"
    /\ Propagate(c, "NameError")
    /\ searchPath' = [searchPath EXCEPT ![c] = NoPath]
    /\ UNCHANGED <<apiVars, extNotPool, pool, connVars, batchVars, delVars, shardVars, schemaVars, checkedOut, kind, exists, exitHow, txVars,
                   dbVars, histVars, gocVars>>

\* _set_search_path and the rest of __enter__: the scope is handed to the caller.
SetSearchPath(c) ==
    /\ pc[c] = "set_search_path"
    /\ pc' = [pc EXCEPT ![c] = "open"]
    /\ searchPath' = [searchPath EXCEPT ![c] =
                    [now |-> {ExpId},
                     kept |-> IF kind[c] \in RawKinds THEN {ExpId} ELSE @.kept]]
    /\ UNCHANGED <<apiVars, extNotPool, pool, connVars, batchVars, delVars, shardVars, schemaVars, checkedOut, kind, exists, err, exitHow, txVars,
                   dbVars, histVars, gocVars>>

\* The model classes a query can name, by what the code reads of a class: __name__,
\* is_distributed, the attribute that holds the location (_location, location or
\* neither) and the session whose search path holds the table.
Models ==
    {[name |-> "ExperimentReference", is_distributed |-> FALSE, attr |-> "_location",
      scope |-> "MainSession"],
     [name |-> "Submission", is_distributed |-> FALSE, attr |-> NoValue,
      scope |-> "MainSession"],
     [name |-> "Experiment", is_distributed |-> FALSE, attr |-> "location",
      scope |-> "ExperimentSession"],
     [name |-> "Plate", is_distributed |-> FALSE, attr |-> "_location",
      scope |-> "ExperimentSession"],
     [name |-> "Mapobject", is_distributed |-> TRUE, attr |-> NoValue,
      scope |-> "ExperimentSession"]}

\* the model classes whose tables live in the schema of the experiment
ExperimentModels == {m.name : m \in {x \in Models : x.scope = "ExperimentSession"}}

\* DROP SCHEMA ... CASCADE takes the schema's tables, their rows, their shards and
\* their sequences with it
Cascade(rows, dropped) ==
    IF ExpId \in dropped THEN {r \in rows : r.cls \notin ExperimentModels} ELSE rows

\* (mutant) the commit persists the schema drops and leaves the rows as they are
Committed_SchemaOnly(c) ==
    /\ table' = table
    /\ schemas' = schemas \ txDrop[c]
    /\ tablesIn' = tablesIn \ txDrop[c]
    /\ IF ExpId \in txDrop[c]
       THEN /\ pg_dist_shard' = [t \in tables_to_distribute_by_range |-> {}]
            /\ partmethod' = [t \in tables_to_distribute_by_range |-> "h"]
            /\ sequences' = {}
       ELSE UNCHANGED shardVars

\* session.commit(): the transaction's inserts, deletes and schema drops persist.
Committed(c) ==
    /\ table' = Cascade((table \ txDel[c]) \cup txIns[c], txDrop[c])
    /\ schemas' = schemas \ txDrop[c]
    /\ tablesIn' = tablesIn \ txDrop[c]
    /\ IF ExpId \in txDrop[c]
       THEN /\ pg_dist_shard' = [t \in tables_to_distribute_by_range |-> {}]
            /\ partmethod' = [t \in tables_to_distribute_by_range |-> "h"]
            /\ sequences' = {}
       ELSE UNCHANGED shardVars

\* the transaction ends (commit, rollback or close): nothing is pending any more
TxEnds(c) ==
    /\ txIns' = [txIns EXCEPT ![c] = {}]
    /\ txDel' = [txDel EXCEPT ![c] = {}]
    /\ txDrop' = [txDrop EXCEPT ![c] = {}]

\* What may come of the commit or the rollback at the end of a scope.
ExitOutcomes(raised) ==
    IF raised THEN {"ok", "OperationalError"}
    ELSE {"ok", "RuntimeError", "OperationalError"}

\* The branch of __exit__ that ran, and how it ended.
ExitPath(raised, outcome) ==
    IF raised
    THEN (IF outcome = "ok" THEN "rollback" ELSE "rollback failed")
    ELSE (IF outcome = "ok" THEN "commit"
          ELSE IF outcome = "RuntimeError" THEN "commit failed due to RuntimeError"
          ELSE "commit failed")

\* (mutant) __exit__ commits whether or not the body raised
ExitCommits_Always(raised, outcome) == outcome = "ok"

\* if except_value: rollback() else: commit() -- whether the scope's changes persist
ExitCommits(raised, outcome) == ~raised /\ outcome = "ok"

\* _Session.__exit__(except_type, except_value, except_trace); raised: the body
\* left the scope with an exception (except_value is set).
ExitSession(c, raised, outcome) ==
    /\ pc[c] = "open"
    /\ kind[c] \in SessionKinds
    /\ gocPc[c] \in {"idle", "done", "raised"}
    /\ gocPc[c] = "raised" => raised
    /\ outcome \in ExitOutcomes(raised)
    /\ exitHow' = [exitHow EXCEPT ![c] = ExitPath(raised, outcome)]
    /\ TxEnds(c)
    /\ IF ExitCommits(raised, outcome)
       THEN Committed(c)
       ELSE UNCHANGED <<table, schemas, tablesIn, shardVars>>
    /\ IF outcome = "OperationalError"
       THEN /\ Propagate(c, outcome)        \* connection.close() is not reached
            /\ searchPath' = [searchPath EXCEPT ![c] = NoPath]
            /\ UNCHANGED <<checkedOut, pool>>
       ELSE /\ Release(c)
            /\ Checkin(c, IF ExitCommits(raised, outcome) THEN searchPath[c].now
                          ELSE searchPath[c].kept)
            /\ UNCHANGED err
    /\ gocPc' = [gocPc EXCEPT ![c] = "idle"]
    /\ gocKey' = [gocKey EXCEPT ![c] = NoValue]
    /\ gocRet' = [gocRet EXCEPT ![c] = NoValue]
    /\ gocPath' = [gocPath EXCEPT ![c] = NoValue]
    /\ scopeRows' = [scopeRows EXCEPT ![c] = {}]
    /\ UNCHANGED <<apiVars, extNotPool, connVars, batchVars, delVars, customizeRuns, kind, exists, fs, made, gocCalls>>

\* _Connection.__exit__: the connection goes back to the pool, which rolls back
\* what is pending on it
ExitConnection(c) ==
    /\ pc[c] = "open"
    /\ kind[c] \in RawKinds
    /\ Release(c)
    /\ Checkin(c, searchPath[c].kept)
    /\ TxEnds(c)
    /\ UNCHANGED <<apiVars, extNotPool, connVars, batchVars, delVars, shardVars, schemaVars, kind, exists, err,
                   exitHow, dbVars, histVars, gocVars>>

(***************************************************************************)
(* SpecEnter: callers enter and leave scopes of every kind for one         *)
(* experiment whose schema does not exist at first.                        *)
(***************************************************************************)
InitEnter ==
    /\ ShardIdle
    /\ schemas = {}
    /\ tablesIn = {}
    /\ customizeRuns = 0
    /\ ScopeIdle
    /\ TxIdle
    /\ GocIdle
    /\ ConnIdle
    /\ ExtIdle
    /\ ApiIdle
    /\ BatchIdle
    /\ table = {}
    /\ fs = {}

NextEnter ==
    \E c \in Callers :
       \/ \E k \in Kinds : Connect(c, k)
       \/ SelectSchemaExists(c)
       \/ CreateSchema(c)
       \/ CreateTables(c)
       \/ CustomizeInSession(c)
       \/ CustomizeInConnection(c)
       \/ SetSearchPath(c)
       \/ \E raised \in BOOLEAN, outcome \in {"ok", "RuntimeError", "OperationalError"} :
             ExitSession(c, raised, outcome)
       \/ ExitConnection(c)

SpecEnter == InitEnter /\ [][NextEnter]_vars

\* an experiment scope is in the caller's hands
Handed(c) == pc[c] = "open" /\ kind[c] \in ExperimentKinds

Customized == \A t \in tables_to_distribute_by_range : partmethod[t] = "r"

\* C2 (as claimed): under every interleaving of first-time callers the customization
\* of the schema is never started twice, has run once when a scope on the schema is
\* handed out, and no caller fails on what another caller created first.
C2_FirstCreationIdempotent ==
    /\ customizeRuns <= 1
    /\ \A c \in Callers : Handed(c) => customizeRuns = 1
    /\ \A c \in Callers : err[c] # "ProgrammingError"

\* C3 (as claimed): whenever a session or connection on the schema is in a caller's
\* hands, the schema's tables exist and its distributed tables are range partitioned.
C3_HandedOnlyAfterCustomization ==
    \A c \in Callers : Handed(c) => ExpId \in tablesIn /\ Customized

\* C8 (as claimed): the connections checked out of the pool are exactly those of
\* the scopes that are open (entered or being entered, and not yet left).
C8_CheckedOutEqualsOpenScopes ==
    checkedOut = Cardinality({c \in Callers : pc[c] # "out"})

(***************************************************************************)
(* Work inside a session scope: session.add and get_or_create.             *)
(***************************************************************************)
\* the keyword arguments get_or_create is called with (Channel, name=...)
Attrs == {"DAPI", "GFP"}

\* An instance of a model class; id tells two instances with equal attributes apart.
Row(cls, key, c, n) ==
    [cls |-> cls, key |-> key, id |-> <<cls, c, n>>, location |-> NoLocation]

\* The rows a statement of c's session sees: what is committed, and c's own changes.
Visible(c) == (table \ txDel[c]) \cup txIns[c]

\* session.query(model).filter_by(**kwargs)
FilterBy(c, cls, key) == {r \in Visible(c) : r.cls = cls /\ r.key = key}

\* session.add(instance) in the body of a scope: the instance is pending.
BodyAdd(c) ==
    /\ pc[c] = "open"
    /\ kind[c] \in SessionKinds
    /\ gocPc[c] \in {"idle", "done"}
    /\ made[c] < MaxAdds
    /\ LET row == Row("Submission", "submission", c, made[c] + 1)
       IN  /\ txIns' = [txIns EXCEPT ![c] = @ \cup {row}]
           /\ scopeRows' = [scopeRows EXCEPT ![c] = @ \cup {row}]
    /\ made' = [made EXCEPT ![c] = @ + 1]
    /\ UNCHANGED <<apiVars, extVars, connVars, batchVars, delVars, shardVars, schemaVars, scopeVars, txDel, txDrop, dbVars, gocVars>>

\* get_or_create(model, **kwargs) is called
GocCall(c, key) ==
    /\ pc[c] = "open"
    /\ kind[c] \in SessionKinds
    /\ gocPc[c] \in {"idle", "done"}
    /\ gocCalls[c] < MaxCalls
    /\ gocCalls' = [gocCalls EXCEPT ![c] = @ + 1]
    /\ gocPc' = [gocPc EXCEPT ![c] = "query"]
    /\ gocKey' = [gocKey EXCEPT ![c] = key]
    /\ gocRet' = [gocRet EXCEPT ![c] = NoValue]
    /\ gocPath' = [gocPath EXCEPT ![c] = NoValue]
    /\ UNCHANGED <<apiVars, extVars, connVars, batchVars, delVars, shardVars, schemaVars, scopeVars, txVars, dbVars, histVars>>

\* query(model).filter_by(**kwargs).one(), the outcome for the rows found
One(c, found, path, ifNone) ==
    IF Cardinality(found) = 1
    THEN /\ gocRet' = [gocRet EXCEPT ![c] = CHOOSE r \in found : TRUE]
         /\ gocPath' = [gocPath EXCEPT ![c] = path]
         /\ gocPc' = [gocPc EXCEPT ![c] = "done"]
    ELSE /\ gocPc' = [gocPc EXCEPT ![c] = IF found = {} THEN ifNone ELSE "raised"]
         /\ gocPath' = [gocPath EXCEPT ![c] =
                           IF found # {} THEN "MultipleResultsFound"
                           ELSE IF ifNone = "raised" THEN "NoResultFound" ELSE @]
         /\ UNCHANGED gocRet

\* the first try block: look the instance up
GocQuery(c) ==
    /\ gocPc[c] = "query"
    /\ One(c, FilterBy(c, "Channel", gocKey[c]), "found existing instance", "insert")
    /\ UNCHANGED <<apiVars, extVars, connVars, batchVars, delVars, shardVars, schemaVars, scopeVars, txVars, dbVars, histVars,
                   gocKey, gocCalls>>

\* The table's uniqueness constraint: a committed row with the key fails the INSERT;
\* a row another open transaction inserted makes the INSERT wait for that transaction.
Duplicate(c, cls, key) == \E r \in table \ txDel[c] : r.cls = cls /\ r.key = key
MustWait(c, cls, key) ==
    \E d \in Callers \ {c} : \E r \in txIns[d] : r.cls = cls /\ r.key = key

\* (mutant) the handler re-raises the IntegrityError instead of recovering
GocOnIntegrityError_Reraise(c) ==
    /\ gocPc' = [gocPc EXCEPT ![c] = "raised"]
    /\ UNCHANGED <<txIns, scopeRows, gocRet>>

\* except IntegrityError: the handler is entered
GocOnIntegrityError(c) ==
    /\ gocPc' = [gocPc EXCEPT ![c] = "rollback"]
    /\ UNCHANGED <<txIns, scopeRows, gocRet>>

\* instance = model(**kwargs); session.add(instance); session.commit() up to the
\* INSERT the commit flushes
GocInsert(c) ==
    /\ gocPc[c] = "insert"
    /\ ~MustWait(c, "Channel", gocKey[c])
    /\ IF Duplicate(c, "Channel", gocKey[c])
       THEN GocOnIntegrityError(c)
       ELSE LET row == Row("Channel", gocKey[c], c, gocCalls[c])
            IN  /\ txIns' = [txIns EXCEPT ![c] = @ \cup {row}]
                /\ scopeRows' = [scopeRows EXCEPT ![c] = @ \cup {row}]
                /\ gocRet' = [gocRet EXCEPT ![c] = row]
                /\ gocPc' = [gocPc EXCEPT ![c] = "commit"]
    /\ UNCHANGED <<apiVars, extVars, connVars, batchVars, delVars, shardVars, schemaVars, scopeVars, txDel, txDrop, dbVars, made,
                   gocKey, gocPath, gocCalls>>

\* session.commit(): the COMMIT; everything pending in the session persists
GocCommit(c) ==
    /\ gocPc[c] = "commit"
    /\ Committed(c)
    /\ TxEnds(c)
    /\ PathCommitted(c)
    /\ gocPath' = [gocPath EXCEPT ![c] = "created new instance"]
    /\ gocPc' = [gocPc EXCEPT ![c] = "done"]
    /\ UNCHANGED <<apiVars, extNotPool, pool, connVars, batchVars, delVars, customizeRuns, scopeVars, fs, histVars,
                   gocKey, gocRet, gocCalls>>

\* session.rollback() in the IntegrityError handler
GocRollback(c) ==
    /\ gocPc[c] = "rollback"
    /\ TxEnds(c)
    /\ PathRolledBack(c)
    /\ gocPc' = [gocPc EXCEPT ![c] = "reread"]
    /\ UNCHANGED <<apiVars, extNotPool, pool, connVars, batchVars, delVars, shardVars, schemaVars, scopeVars, dbVars, histVars,
                   gocKey, gocRet, gocPath, gocCalls>>

\* (mutant) a re-read that finds nothing sends the call back to the insert
GocReread_Retry(c) ==
    /\ gocPc[c] = "reread"
    /\ One(c, FilterBy(c, "Channel", gocKey[c]), "found existing instance after rollback",
           "insert")
    /\ UNCHANGED <<apiVars, extVars, connVars, batchVars, delVars, shardVars, schemaVars, scopeVars, txVars, dbVars, histVars,
                   gocKey, gocCalls>>

\* the second query(model).filter_by(**kwargs).one(); what it raises is re-raised
GocReread(c) ==
    /\ gocPc[c] = "reread"
    /\ One(c, FilterBy(c, "Channel", gocKey[c]), "found existing instance after rollback",
           "raised")
    /\ UNCHANGED <<apiVars, extVars, connVars, batchVars, delVars, shardVars, schemaVars, scopeVars, txVars, dbVars, histVars,
                   gocKey, gocCalls>>

(***************************************************************************)
(* SpecGoc: two writers, each in MainSession scopes, add instances and     *)
(* call get_or_create on a table that is empty at first.  The commit or    *)
(* rollback that ends a scope may fail with the RuntimeError __exit__      *)
(* swallows; SpecEnter has the failures that leave __exit__.               *)
(***************************************************************************)
InitGoc ==
    /\ ShardIdle
    /\ schemas = {}
    /\ tablesIn = {}
    /\ customizeRuns = 0
    /\ ScopeIdle
    /\ TxIdle
    /\ GocIdle
    /\ ConnIdle
    /\ ExtIdle
    /\ ApiIdle
    /\ BatchIdle
    /\ table = {}
    /\ fs = {}

NextGoc ==
    \E c \in Callers :
       \/ Connect(c, "MainSession")
       \/ BodyAdd(c)
       \/ \E key \in Attrs : GocCall(c, key)
       \/ GocQuery(c)
       \/ GocInsert(c)
       \/ GocCommit(c)
       \/ GocRollback(c)
       \/ GocReread(c)
       \/ \E raised \in BOOLEAN, outcome \in {"ok", "RuntimeError"} :
             ExitSession(c, raised, outcome)

SpecGoc == InitGoc /\ [][NextGoc]_vars

Persisted(cls, key) == {r \in table : r.cls = cls /\ r.key = key}

\* C1: whatever the interleaving of two writers' get_or_create steps on a table
\* with no matching row at first, no call raises, every call that returned has an
\* instance with the attributes it asked for that is the one persisted row with
\* these attributes, and no attribute tuple is ever persisted twice.
C1_OneRowNoFailure ==
    /\ \A c \in Callers : gocPc[c] # "raised"
    /\ \A c \in Callers :
          gocPc[c] = "done" =>
             /\ gocRet[c].key = gocKey[c]
             /\ Persisted("Channel", gocKey[c]) = {gocRet[c]}
    /\ \A key \in Attrs : Cardinality(Persisted("Channel", key)) <= 1

\* both writers raced for the same attributes: one created the row, the other's
\* insert hit the uniqueness constraint and it re-read the winner's row
C1_Witness ==
    /\ gocPc["c1"] = "done" /\ gocPc["c2"] = "done"
    /\ gocKey["c1"] = gocKey["c2"]
    /\ gocPath["c1"] = "created new instance"
    /\ gocPath["c2"] = "found existing instance after rollback"
    /\ gocRet["c1"] = gocRet["c2"]

\* a session scope of caller c ends in this step
Leaves(c) == pc[c] = "open" /\ pc'[c] = "out" /\ kind[c] \in SessionKinds

MaxDeletes == 2

\* the session that deletes
Deleter == "c1"

\* locations on disk: the directory of the experiment, a plate directory with an
\* image in it, and a plate that is kept in one file
ExpDir == <<"experiment">>
PlateDir == <<"experiment", "plate_1">>
ImageFile == <<"experiment", "plate_1", "image.tif">>
PlateFile == <<"experiment", "plate_2.h5">>

\* path p is q or lies below q
IsUnder(p, q) == Len(q) <= Len(p) /\ SubSeq(p, 1, Len(q)) = q

FsUniverse ==
    {[path |-> ExpDir, type |-> "dir"], [path |-> PlateDir, type |-> "dir"],
     [path |-> ImageFile, type |-> "file"], [path |-> PlateFile, type |-> "file"]}

\* a file or directory exists only inside directories that exist
FsStates ==
    {files \in SUBSET FsUniverse :
        \A f \in files : \A k \in 1..(Len(f.path) - 1) :
           [path |-> SubSeq(f.path, 1, k), type |-> "dir"] \in files}

\* a row that was in the database before the scopes of the model were entered
DbRow(cls, n, location) ==
    [cls |-> cls, key |-> "row", id |-> <<cls, "db", n>>, location |-> location]

MainRows == {DbRow("ExperimentReference", ExpId, ExpDir), DbRow("Submission", 1, NoLocation)}

ExperimentRows ==
    {DbRow("Experiment", ExpId, ExpDir), DbRow("Plate", 1, PlateDir),
     DbRow("Plate", 2, PlateFile), DbRow("Plate", 3, NoLocation),
     DbRow("Mapobject", 1, NoLocation)}

\* (mutant) delete_location removes files only
delete_location_FilesOnly(files, path) ==
    {f \in files : ~(f.path = path /\ f.type = "file")}

\* delete_location(path), on the files and directories that exist
delete_location(files, path) ==
    IF \E f \in files : f.path = path                              \* os.path.exists
    THEN LET e == CHOOSE f \in files : f.path = path
         IN  IF e.type = "dir"
             THEN {f \in files : ~IsUnder(f.path, path)}           \* shutil.rmtree
             ELSE IF e.type = "file" THEN files \ {e}              \* os.remove
             ELSE files
    ELSE files

\* for loc in locations: if loc[0] is not None: delete_location(loc[0])
RECURSIVE DeleteLocations(_, _)
DeleteLocations(files, locations) ==
    IF locations = {} THEN files
    ELSE LET loc == CHOOSE l \in locations : TRUE
         IN  DeleteLocations(IF loc # NoLocation THEN delete_location(files, loc)
                             ELSE files,
                             locations \ {loc})

\* the errors of a statement the database refuses; the transaction is aborted by it
StatementErrors == {"IntegrityError", "ProgrammingError", "InternalError"}

\* (mutant) no class is refused by name
ForbiddenName_None(name) == FALSE

\* if cls.__name__ == 'Experiment': raise ValueError
ForbiddenName(name) == name = "Experiment"

\* The exception Query.delete leaves with, or NoValue: the checks and statements in
\* the order of the code.  aborted: a statement of the transaction failed before,
\* and the database refuses every further one; outcome: what comes of the DELETE.
DeleteRaises(c, cls, matched, outcome) ==
    IF cls.is_distributed THEN "ValueError"
    ELSE IF cls.attr # NoValue /\ lastOp[c].aborted THEN "InternalError"
    ELSE IF ForbiddenName(cls.name) THEN "ValueError"
    ELSE IF lastOp[c].aborted THEN "InternalError"
    ELSE IF /\ cls.name = "ExperimentReference"
            /\ \E r \in matched : r.id[3] \notin (schemas \ txDrop[c])
         THEN "ProgrammingError"           \* DROP SCHEMA of a schema that is not there
    ELSE IF outcome # "ok" THEN outcome
    ELSE NoValue

\* Query.delete() on a query of one model class that matches the rows "matched"
Delete(c, cls, matched, outcome) ==
    /\ pc[c] = "open"
    /\ kind[c] = cls.scope
    /\ gocPc[c] \in {"idle", "done"}
    /\ lastOp[c].n < MaxDeletes
    /\ matched \subseteq {r \in Visible(c) : r.cls = cls.name}
    /\ outcome \in {"ok", "IntegrityError"}
    /\ LET raised == DeleteRaises(c, cls, matched, outcome)
           locations == IF cls.attr = NoValue THEN {} ELSE {r.location : r \in matched}
           before == {f \in fs : \E l \in locations :
                                    l # NoLocation /\ IsUnder(f.path, l)}
       IN  /\ lastOp' = [lastOp EXCEPT ![c] =
                            [n |-> @.n + 1, cls |-> cls.name, matched |-> matched,
                             raised |-> raised, before |-> before,
                             aborted |-> @.aborted \/ raised \in StatementErrors]]
           /\ IF raised = NoValue
              THEN /\ txDel' = [txDel EXCEPT ![c] = @ \cup (matched \cap table)]
                   /\ txIns' = [txIns EXCEPT ![c] = @ \ matched]
                   /\ txDrop' = [txDrop EXCEPT ![c] =
                                    IF cls.name = "ExperimentReference"
                                    THEN @ \cup {r.id[3] : r \in matched} ELSE @]
                   /\ fs' = DeleteLocations(fs, locations)
              ELSE IF raised \in StatementErrors
              THEN TxEnds(c) /\ UNCHANGED fs
              ELSE UNCHANGED <<txVars, fs>>
    /\ UNCHANGED <<apiVars, extVars, connVars, batchVars, shardVars, schemaVars, scopeVars, table, histVars, gocVars>>

(***************************************************************************)
(* SpecTx: one caller enters session scopes on the main schema and on the  *)
(* schema of the experiment, deletes rows with Query.delete and leaves.    *)
(* The schema of the experiment exists at first, customized, or does not.  *)
(***************************************************************************)
InitTx ==
    /\ schemas \in {{}, {ExpId}}
    /\ tablesIn = schemas
    /\ IF ExpId \in schemas
       THEN /\ pg_dist_shard = [t \in tables_to_distribute_by_range |->
                                   CustomizedShards(NewShards(t, ShardCount))]
            /\ partmethod = [t \in tables_to_distribute_by_range |-> "r"]
            /\ sequences = UNION {ShardSequences(t, NewShards(t, ShardCount)) :
                                  t \in tables_to_distribute_by_range}
            /\ customizeRuns = 1
            /\ table = MainRows \cup ExperimentRows
       ELSE /\ ShardIdle
            /\ customizeRuns = 0
            /\ table = MainRows
    /\ ScopeIdle
    /\ TxIdle
    /\ GocIdle
    /\ ConnIdle
    /\ ExtIdle
    /\ ApiIdle
    /\ BatchIdle
    /\ fs \in FsStates

NextTx ==
    \/ \E k \in SessionKinds : Connect(Deleter, k)
    \/ SelectSchemaExists(Deleter)
    \/ CreateSchema(Deleter)
    \/ CreateTables(Deleter)
    \/ CustomizeInSession(Deleter)
    \/ SetSearchPath(Deleter)
    \/ \E cls \in Models, matched \in SUBSET (MainRows \cup ExperimentRows),
          outcome \in {"ok", "IntegrityError"} :
             Delete(Deleter, cls, matched, outcome)
    \/ \E raised \in BOOLEAN, outcome \in {"ok", "RuntimeError"} :
          ExitSession(Deleter, raised, outcome)

SpecTx == InitTx /\ [][NextTx]_vars

\* caller c makes a Query.delete call in this step
DeleteCalled(c) == lastOp'[c].n = lastOp[c].n + 1

\* the classes with a location on disk
FileSystemModels == {m.name : m \in {x \in Models : x.attr # NoValue}}

\* C5: a Query.delete on a filesystem-backed model whose row delete succeeds leaves
\* none of the matched rows in the session's view and nothing on disk at the non-null
\* location of any matched instance, file or directory; when the scope then commits,
\* none of the matched rows is left in the database.
C5_DeleteRemovesRowsAndLocations ==
    [][\A c \in Callers :
          /\ (DeleteCalled(c) /\ lastOp'[c].cls \in FileSystemModels
                              /\ lastOp'[c].raised = NoValue) =>
                /\ (Visible(c))' \cap lastOp'[c].matched = {}
                /\ \A r \in lastOp'[c].matched :
                      r.location # NoLocation => ~\E f \in fs' : f.path = r.location
          /\ (Leaves(c) /\ exitHow'[c] = "commit"
                        /\ lastOp[c].cls \in FileSystemModels
                        /\ lastOp[c].raised = NoValue) =>
                table' \cap lastOp[c].matched = {}]_vars

\* a scope deleted plates kept in a directory and in a file, both on disk before,
\* and committed
C5_Witness ==
    /\ pc[Deleter] = "out" /\ exitHow[Deleter] = "commit"
    /\ lastOp[Deleter].cls = "Plate" /\ lastOp[Deleter].raised = NoValue
    /\ \E f \in lastOp[Deleter].before : f.type = "dir" /\ f.path = PlateDir
    /\ \E f \in lastOp[Deleter].before : f.type = "file" /\ f.path = PlateFile
    /\ table \cap lastOp[Deleter].matched = {}
    /\ ~\E f \in fs : f.path \in {PlateDir, PlateFile}

\* C6 (as claimed): when the row delete of a Query.delete fails -- the call raised,
\* or the scope ended without a commit and the matched rows are still in the
\* database -- everything that was on disk at the locations of the matched
\* instances before the call is still there.
C6_FailedDeleteKeepsLocations ==
    \A c \in Callers :
       (/\ lastOp[c].n > 0
        /\ \/ lastOp[c].raised # NoValue
           \/ /\ pc[c] = "out"
              /\ exitHow[c] # "commit"
              /\ lastOp[c].matched \subseteq table) =>
          lastOp[c].before \subseteq fs

\* C9 (as claimed): a Query.delete on the experiment reference always raises
\* RequiresSchemaDropError and changes neither rows, schemas nor locations.
C9_ReferenceDeleteFailsFast ==
    [][\A c \in Callers :
          (DeleteCalled(c) /\ lastOp'[c].cls = "ExperimentReference") =>
             /\ lastOp'[c].raised = "RequiresSchemaDropError"
             /\ UNCHANGED <<table, txVars, schemas, tablesIn, fs>>]_vars

\* C9 (amended): a Query.delete on Experiment always fails, with the ValueError that
\* points to the reference object unless a statement of the transaction had failed
\* before, and changes neither rows, schemas nor locations; a Query.delete on the
\* experiment reference that succeeds drops the schema of every matched reference
\* and deletes the matched rows in the transaction of the scope.
C9_ExperimentDeleteFailsFast ==
    [][\A c \in Callers :
          /\ (DeleteCalled(c) /\ lastOp'[c].cls = "Experiment") =>
                /\ lastOp'[c].raised # NoValue
                /\ ~lastOp[c].aborted => lastOp'[c].raised = "ValueError"
                /\ UNCHANGED <<table, txVars, schemas, tablesIn, fs>>
          /\ (DeleteCalled(c) /\ lastOp'[c].cls = "ExperimentReference"
                              /\ lastOp'[c].raised = NoValue) =>
                /\ {r.id[3] : r \in lastOp'[c].matched} \subseteq txDrop'[c]
                /\ (Visible(c))' \cap lastOp'[c].matched = {}]_vars

\* a delete of the Experiment row was refused with the ValueError
C9_Witness ==
    /\ lastOp[Deleter].cls = "Experiment"
    /\ lastOp[Deleter].raised = "ValueError"
    /\ lastOp[Deleter].matched # {}
    /\ lastOp[Deleter].matched \subseteq table
    /\ ExpId \in schemas

(***************************************************************************)
(* Batch files: write_batch_files and read_batch_file.  A path is the      *)
(* sequence of its names; a value of a batch carries its Python type.      *)
(***************************************************************************)
\* the most run jobs of a step
MaxJobs == 2

\* self.workflow_location: absolute path to the workflow data
workflow_location == <<"experiment", "workflow">>

\* os.path.normpath of an absolute path: "." and ".." are resolved
RECURSIVE NormFrom(_, _)
NormFrom(names, acc) ==
    IF names = << >> THEN acc
    ELSE LET x == Head(names)
         IN  NormFrom(Tail(names),
                      IF x = "." THEN acc
                      ELSE IF x = ".."
                      THEN (IF acc = << >> THEN acc ELSE SubSeq(acc, 1, Len(acc) - 1))
                      ELSE Append(acc, x))

normpath(path) == NormFrom(path, << >>)

\* len(os.path.commonprefix([start_list, path_list]))
RECURSIVE commonprefix(_, _)
commonprefix(a, b) ==
    IF a = << >> \/ b = << >> THEN 0
    ELSE IF Head(a) # Head(b) THEN 0
    ELSE 1 + commonprefix(Tail(a), Tail(b))

\* [pardir] * n
RECURSIVE Pardirs(_)
Pardirs(n) == IF n <= 0 THEN << >> ELSE <<"..">> \o Pardirs(n - 1)

\* os.path.relpath(path, start) for absolute path and start
relpath(path, start) ==
    LET start_list == normpath(start)
        path_list == normpath(path)
        i == commonprefix(start_list, path_list)
        rel_list == Pardirs(Len(start_list) - i) \o SubSeq(path_list, i + 1, Len(path_list))
    IN  IF rel_list = << >> THEN <<".">> ELSE rel_list

\* (mutant) os.path.join that drops its first argument
join_SecondOnly(a, b) == b

\* os.path.join(a, b) for a relative path b
join(a, b) == a \o b

\* the values of a batch, by Python type
Str(path) == [kind |-> "str", val |-> path]
List(elements) == [kind |-> "list", val |-> elements]
Dict(items) == [kind |-> "dict", val |-> items]
\* a value of another type, a number
Num == [kind |-> "int", val |-> << >>]

\* [F(sub_v) for sub_v in v]
EachPath(F(_), v) == List([i \in 1..Len(v.val) |-> Str(F(v.val[i].val))])

\* the branch "isinstance(value, list)" of the two loops
RelocateList(F(_), value) ==
    IF Len(value.val) = 0 THEN value                               \* continue
    ELSE IF value.val[1].kind = "list"
    THEN List([i \in 1..Len(value.val) |-> EachPath(F, value.val[i])])
    ELSE EachPath(F, value)

\* the body of "for key, value in batch['inputs'].items()"
RelocateInput(F(_), value) ==
    IF value.kind = "dict"
    THEN Dict([k \in DOMAIN value.val |->
                  IF value.val[k].kind = "list" THEN EachPath(F, value.val[k])
                  ELSE Str(F(value.val[k].val))])
    ELSE RelocateList(F, value)

\* the body of "for key, value in batch['outputs'].items()"
RelocateOutput(F(_), value) ==
    IF value.kind = "list" THEN RelocateList(F, value) ELSE Str(F(value.val))

\* the TypeError of the two loops: an input that is neither dict nor list, an
\* output that is neither list nor string
PathsRaise(batch) ==
    \/ \E k \in DOMAIN batch.inputs : batch.inputs[k].kind \notin {"dict", "list"}
    \/ \E k \in DOMAIN batch.outputs : batch.outputs[k].kind \notin {"list", "str"}

ToRelative(path) == relpath(path, workflow_location)
ToAbsolute(path) == join(workflow_location, path)

\* _make_paths_relative(batch), when it does not raise
make_paths_relative(batch) ==
    [batch EXCEPT !.inputs = [k \in DOMAIN @ |-> RelocateInput(ToRelative, @[k])],
                  !.outputs = [k \in DOMAIN @ |-> RelocateOutput(ToRelative, @[k])]]

\* _make_paths_absolute(batch), when it does not raise
make_paths_absolute(batch) ==
    [batch EXCEPT !.inputs = [k \in DOMAIN @ |-> RelocateInput(ToAbsolute, @[k])],
                  !.outputs = [k \in DOMAIN @ |-> RelocateOutput(ToAbsolute, @[k])]]

\* (mutant) _check_io_description lets everything pass
check_io_description_Skipped(bs) == NoValue

\* _check_io_description(batches): the error it raises, or NoValue.  In Python 2
\* dict.values() is a list, so the two tests of "inputs" elements never fail.
check_io_description(bs) ==
    IF \E i \in 1..Len(bs.run) :
          \E k \in DOMAIN bs.run[i].outputs : bs.run[i].outputs[k].kind # "list"
    THEN "TypeError"
    ELSE IF \E i \in 1..Len(bs.collect) :
               \E k \in DOMAIN bs.collect[i].outputs :
                  bs.collect[i].outputs[k].kind # "list"
    THEN "TypeError"
    ELSE NoValue

\* the batch files of a step, by job ('%s_run_%.6d.batch.json', '%s_collect.batch.json')
build_batch_filename_for_run_job(job_id) == [job |-> "run", id |-> job_id]
build_batch_filename_for_collect_job == [job |-> "collect", id |-> 0]
Filenames ==
    {build_batch_filename_for_run_job(i) : i \in 1..(MaxJobs + 1)}
       \cup {build_batch_filename_for_collect_job}

\* write_batch_files(batches).  The batches are made relative in place, one after
\* the other, the run jobs first; a batch whose paths raise ends the call and
\* leaves the files of the batches before it.
write_batch_files ==
    /\ bpc = "init"
    /\ bpc' = "written"
    /\ LET nrun == Len(batches.run)
           n == nrun + Len(batches.collect)
           job(i) == IF i <= nrun THEN batches.run[i] ELSE batches.collect[i - nrun]
           file(i) == IF i <= nrun THEN build_batch_filename_for_run_job(job(i).id)
                      ELSE build_batch_filename_for_collect_job
           bad == {i \in 1..n : PathsRaise(job(i))}
           stop == IF bad = {} THEN n + 1
                   ELSE CHOOSE i \in bad : \A j \in bad : i <= j
           done == {i \in 1..n : i < stop}
       IN  IF check_io_description(batches) # NoValue
           THEN /\ batchErr' = check_io_description(batches)
                /\ UNCHANGED <<batches, batchFiles>>
           ELSE /\ batchErr' = IF bad = {} THEN NoValue ELSE "TypeError"
                /\ batches' =
                      [run |-> [i \in 1..nrun |->
                                   IF i \in done THEN make_paths_relative(batches.run[i])
                                   ELSE batches.run[i]],
                       collect |-> [i \in 1..Len(batches.collect) |->
                                       IF nrun + i \in done
                                       THEN make_paths_relative(batches.collect[i])
                                       ELSE batches.collect[i]]]
                /\ batchFiles' =
                      {e \in batchFiles : \A i \in done : e.file # file(i)}
                         \cup {[file |-> file(i), content |-> make_paths_relative(job(i))] :
                               i \in done}
    /\ UNCHANGED <<given, readBack>>
    /\ UNCHANGED <<apiVars, extVars, connVars, delVars, shardVars, schemaVars, scopeVars, txVars, dbVars,
                   histVars, gocVars>>

\* read_batch_file(filename)
read_batch_file(filename) ==
    /\ readBack' =
          IF ~\E e \in batchFiles : e.file = filename           \* os.path.exists
          THEN [file |-> filename, err |-> "WorkflowError", batch |-> << >>]
          ELSE LET e == CHOOSE e \in batchFiles : e.file = filename
               IN  [file |-> filename, err |-> NoValue,
                    batch |-> <<make_paths_absolute(e.content)>>]
    /\ UNCHANGED <<given, batches, batchFiles, batchErr, bpc>>
    /\ UNCHANGED <<apiVars, extVars, connVars, delVars, shardVars, schemaVars, scopeVars, txVars, dbVars,
                   histVars, gocVars>>

(***************************************************************************)
(* SpecBatch: a step holds the batches create_batches made, writes them    *)
(* once and reads batch files back.                                        *)
(***************************************************************************)
PathA == workflow_location \o <<"a.tif">>
PathB == workflow_location \o <<"step", "b.tif">>
PathUp == workflow_location \o <<"step", "..", "a.tif">>   \* under the root, not normal
PathOut == <<"experiment", "plates", "a.tif">>             \* not under the root
Paths == {PathA, PathB, PathUp, PathOut}

InputValues ==
    {List(<< >>), Str(PathA)}
       \cup {List(<<Str(p)>>) : p \in Paths}
       \cup {List(<<Str(p), Str(PathB)>>) : p \in Paths}
       \cup {List(<<List(<<Str(p)>>), List(<<Str(PathB)>>)>>) : p \in Paths}
       \cup {Dict([layer \in {"DAPI", "GFP"} |->
                      IF layer = "DAPI" THEN List(<<Str(p)>>) ELSE List(<<Str(PathB)>>)]) :
             p \in Paths}
       \cup {Dict([layer \in {"DAPI"} |-> Str(p)]) : p \in Paths}
       \cup {Num}

OutputValues ==
    {List(<< >>), Str(PathA), Num, Dict([layer \in {"DAPI"} |-> List(<<Str(PathA)>>)])}
       \cup {List(<<Str(p)>>) : p \in Paths}
       \cup {List(<<List(<<Str(p)>>), List(<< >>)>>) : p \in Paths}

\* the description of a run job and of the collect job, as create_batches makes them
RunBatch(id, files, data) ==
    [id |-> id, inputs |-> [key \in {"image_files"} |-> files],
     outputs |-> [key \in {"data_files"} |-> data]]
CollectBatch(files, data) ==
    [inputs |-> [key \in {"data_files"} |-> files],
     outputs |-> [key \in {"data_files"} |-> data]]

BatchSets ==
    LET first == {RunBatch(1, i, o) : i \in InputValues, o \in OutputValues}
        more == {<< >>, <<RunBatch(2, List(<<Str(PathB)>>), List(<<Str(PathA)>>))>>,
                 <<RunBatch(2, Str(PathA), List(<< >>))>>}
        collects == {<< >>, <<CollectBatch(List(<<Str(PathA)>>), List(<<Str(PathB)>>))>>,
                     <<CollectBatch(List(<<Str(PathA)>>), Str(PathB))>>,
                     <<CollectBatch(Num, List(<<Str(PathB)>>))>>}
    IN  {[run |-> <<b>> \o m, collect |-> c] : b \in first, m \in more, c \in collects}

InitBatch ==
    /\ ShardIdle
    /\ schemas = {}
    /\ tablesIn = {}
    /\ customizeRuns = 0
    /\ ScopeIdle
    /\ TxIdle
    /\ GocIdle
    /\ ConnIdle
    /\ ExtIdle
    /\ ApiIdle
    /\ table = {}
    /\ fs = {}
    /\ given \in BatchSets
    /\ batches = given
    /\ batchFiles = {}
    /\ readBack = NoRead
    /\ batchErr = NoValue
    /\ bpc = "init"

NextBatch ==
    \/ write_batch_files
    \/ \E filename \in Filenames : read_batch_file(filename)

SpecBatch == InitBatch /\ [][NextBatch]_vars

\* the paths in a value of a batch
RECURSIVE PathsOf(_)
PathsOf(value) ==
    IF value.kind = "str" THEN {value.val}
    ELSE IF value.kind = "list"
    THEN UNION {PathsOf(value.val[i]) : i \in 1..Len(value.val)}
    ELSE UNION {PathsOf(value.val[k]) : k \in DOMAIN value.val}

BatchPaths(batch) ==
    UNION ({PathsOf(batch.inputs[k]) : k \in DOMAIN batch.inputs}
              \cup {PathsOf(batch.outputs[k]) : k \in DOMAIN batch.outputs})

AllPaths(bs) ==
    UNION ({BatchPaths(bs.run[i]) : i \in 1..Len(bs.run)}
              \cup {BatchPaths(bs.collect[i]) : i \in 1..Len(bs.collect)})

\* the path names a location below the workflow root
UnderRoot(path) ==
    /\ Len(normpath(path)) > Len(workflow_location)
    /\ SubSeq(normpath(path), 1, Len(workflow_location)) = workflow_location

\* the batch of the given set that the file is for
GivenFor(file) ==
    IF file.job = "run"
    THEN given.run[CHOOSE i \in 1..Len(given.run) : given.run[i].id = file.id]
    ELSE given.collect[1]

\* the files write_batch_files is to make for the given set
FilesOf(bs) ==
    {build_batch_filename_for_run_job(bs.run[i].id) : i \in 1..Len(bs.run)}
       \cup {build_batch_filename_for_collect_job : i \in 1..Len(bs.collect)}

\* C10 (as claimed): when a batch set whose paths are all absolute paths under the
\* workflow root was written without error, a batch read back from one of its files
\* equals the batch as it was given, every path the original absolute path.
C10_RoundTrip ==
    (/\ bpc = "written" /\ batchErr = NoValue
     /\ \A p \in AllPaths(given) : UnderRoot(p)
     /\ readBack.batch # << >>) =>
       readBack.batch[1] = GivenFor(readBack.file)

\* C10 (amended): when a batch set whose paths are all normalized absolute paths
\* under the workflow root was written without error, there is a file for every
\* batch of the set, and a batch read back from a file equals the batch as it was
\* given: ids, keys, nesting and every path.
C10_RoundTripOfNormalPaths ==
    (/\ bpc = "written" /\ batchErr = NoValue
     /\ \A p \in AllPaths(given) : UnderRoot(p) /\ normpath(p) = p) =>
       /\ {e.file : e \in batchFiles} = FilesOf(given)
       /\ readBack.batch # << >> => readBack.batch[1] = GivenFor(readBack.file)

\* the file of a run job whose inputs are a mapping of lists and whose outputs are a
\* list of lists, with a path in a directory below the root, was read back
C10_Witness ==
    /\ bpc = "written" /\ batchErr = NoValue
    /\ \A p \in AllPaths(given) : UnderRoot(p) /\ normpath(p) = p
    /\ readBack.file = build_batch_filename_for_run_job(1)
    /\ readBack.batch # << >>
    /\ readBack.batch[1].inputs["image_files"].kind = "dict"
    /\ PathB \in PathsOf(readBack.batch[1].inputs["image_files"])
    /\ \E i \in 1..Len(readBack.batch[1].outputs["data_files"].val) :
          readBack.batch[1].outputs["data_files"].val[i].kind = "list"
    /\ Len(given.collect) = 1
    /\ batches # given

(***************************************************************************)
(* Raw connections on the schema of the experiment: shard selection and    *)
(* shard-scoped ids.                                                       *)
(***************************************************************************)
\* most get_shard_id calls on one connection object
MaxShardCalls == 3

\* the worker servers (nodename, nodeport) that hold shards
Workers == {"worker_1", "worker_2"}

\* pg_dist_shard_placement: the worker a shard is placed on.  The shards of
\* feature_values are all on worker_1, those of the other tables alternate.
pg_dist_shard_placement(shardid) ==
    IF TableBase("feature_values") < shardid /\ shardid < TableBase("label_values")
    THEN "worker_1"
    ELSE IF shardid % 2 = 1 THEN "worker_1" ELSE "worker_2"

\* The model classes a connection is asked about, by what the code reads of a
\* class: __name__, is_distributed and __table__.name.
ConnModels ==
    {[name |-> "Mapobject", is_distributed |-> TRUE, table |-> "mapobjects"],
     [name |-> "FeatureValues", is_distributed |-> TRUE, table |-> "feature_values"],
     [name |-> "Plate", is_distributed |-> FALSE, table |-> "plates"]}

\* the connection kinds with get_shard_id
ShardKinds == {"ExperimentConnection", "ExperimentWorkerConnection"}

\* __init__ of a raw connection; ExperimentWorkerConnection.__init__ picks the host
\* of one placement at random.  The object starts with an empty _shard_lut.
Construct(c, k, host) ==
    /\ pc[c] = "out"
    /\ k \in RawKinds
    /\ IF k = "ExperimentWorkerConnection"
       THEN host \in {pg_dist_shard_placement(r.shardid) :
                      r \in UNION {pg_dist_shard[t] : t \in tables_to_distribute_by_range}}
       ELSE host = NoValue
    /\ conn' = [conn EXCEPT ![c] = [kind |-> k, host |-> host, shard_lut |-> {}]]
    /\ shardCall' = [shardCall EXCEPT ![c] = NoShardCall]
    /\ UNCHANGED <<apiVars, extVars, draws, executed, batchVars, delVars, shardVars, schemaVars, scopeVars, txVars,
                   dbVars, histVars, gocVars>>

\* __enter__ of the connection object the caller holds
EnterConnection(c) ==
    /\ conn[c].kind \in RawKinds
    /\ Connect(c, conn[c].kind)

\* the shards the SELECT of get_shard_id chooses from
Available(c, m) ==
    IF conn[c].kind = "ExperimentWorkerConnection"
    THEN {r.shardid : r \in {q \in pg_dist_shard[m.table] :
                               pg_dist_shard_placement(q.shardid) = conn[c].host}}
    ELSE {r.shardid : r \in pg_dist_shard[m.table]}

\* (mutant) the cache is never hit
InLut_Never(c, name) == FALSE

\* model_class.__name__ in self._shard_lut
InLut(c, name) == \E e \in conn[c].shard_lut : e.model = name

\* Whether an unqualified table or sequence name of the experiment resolves on the
\* connection the statement runs on.  __enter__ of an experiment connection sets the
\* search path to the schema of the experiment; the worker connection runs these
\* statements on a MainConnection, whose search path is the database's own.
Resolves(c, resolved) ==
    conn[c].kind = "ExperimentWorkerConnection" \/ resolved

\* get_shard_id(model_class)
get_shard_id(c, m, resolved) ==
    /\ Resolves(c, resolved)
    /\ pc[c] = "open"
    /\ kind[c] \in ShardKinds
    /\ shardCall[c].n < MaxShardCalls
    /\ LET called(ret, raised) ==
              shardCall' = [shardCall EXCEPT ![c] = [n |-> @.n + 1, model |-> m.name,
                                                     ret |-> ret, raised |-> raised]]
       IN  IF ~m.is_distributed
           THEN called(0, "ValueError") /\ UNCHANGED conn
           ELSE IF InLut(c, m.name)
           THEN /\ called((CHOOSE e \in conn[c].shard_lut : e.model = m.name).shard,
                          NoValue)
                /\ UNCHANGED conn
           ELSE IF ~resolved
           THEN called(0, "ProgrammingError") /\ UNCHANGED conn
           ELSE IF Available(c, m) = {}
           THEN called(0, "TypeError") /\ UNCHANGED conn     \* fetchone() is None
           ELSE \E shard_id \in Available(c, m) :            \* ORDER BY random() LIMIT 1
                   /\ called(shard_id, NoValue)
                   /\ conn' = [conn EXCEPT ![c].shard_lut =
                                  @ \cup {[model |-> m.name, shard |-> shard_id]}]
    /\ UNCHANGED <<apiVars, extVars, draws, executed, batchVars, delVars, shardVars, schemaVars, scopeVars, txVars,
                   dbVars, histVars, gocVars>>

\* the schema of the experiment exists, its tables customized
CustomizedSchema ==
    /\ schemas = {ExpId}
    /\ tablesIn = {ExpId}
    /\ pg_dist_shard = [t \in tables_to_distribute_by_range |->
                           CustomizedShards(NewShards(t, ShardCount))]
    /\ partmethod = [t \in tables_to_distribute_by_range |-> "r"]
    /\ sequences = UNION {ShardSequences(t, NewShards(t, ShardCount)) :
                          t \in tables_to_distribute_by_range}
    /\ customizeRuns = 1

(***************************************************************************)
(* SpecPin: two callers make connection objects on the experiment, enter   *)
(* and leave them and ask them for shards.                                 *)
(***************************************************************************)
InitPin ==
    /\ CustomizedSchema
    /\ ScopeIdle
    /\ TxIdle
    /\ GocIdle
    /\ ConnIdle
    /\ ExtIdle
    /\ ApiIdle
    /\ BatchIdle
    /\ table = {}
    /\ fs = {}

NextPin ==
    \E c \in Callers :
       \/ \E k \in ShardKinds, host \in Workers \cup {NoValue} : Construct(c, k, host)
       \/ EnterConnection(c)
       \/ SelectSchemaExists(c)
       \/ SetSearchPath(c)
       \/ \E m \in ConnModels, resolved \in BOOLEAN : get_shard_id(c, m, resolved)
       \/ ExitConnection(c)

SpecPin == InitPin /\ [][NextPin]_vars

\* caller c makes a get_shard_id call in this step
ShardCalled(c) == shardCall'[c].n = shardCall[c].n + 1

MaxDraws == 2

\* (mutant) the sequence hands out its MINVALUE again and again
nextval_Stuck(seq) == seq.minvalue

\* nextval of a sequence made by CREATE SEQUENCE ... MINVALUE min MAXVALUE max
nextval(seq) == IF seq.last = << >> THEN seq.minvalue ELSE BigAdd(seq.last, 1)

\* the models a caller passes to get_shard_specific_unique_id
DistributedModels == {m \in ConnModels : m.is_distributed}

\* the model the callers draw ids for
DrawModels == {m \in DistributedModels : m.name = "Mapobject"}

\* the shard ids a caller passes: those get_shard_id can have returned for any of
\* the models, the model's own or not
ShardIds == {r.shardid : r \in UNION {pg_dist_shard[m.table] : m \in DistributedModels}}

\* get_shard_specific_unique_id(model_class, shard_id):
\* SELECT nextval FROM nextval('{table}_id_seq_{shard}').  A call that raises (the
\* name does not resolve, no such sequence, the sequence is exhausted) returns
\* nothing and leaves the sequence as it was.
get_shard_specific_unique_id(c, m, shard_id, resolved) ==
    /\ pc[c] = "open"
    /\ kind[c] \in ShardKinds
    /\ Len(draws) < MaxDraws
    /\ Resolves(c, resolved)
    /\ LET named == {q \in sequences : q.table = m.table /\ q.shard = shard_id}
       IN  IF ~resolved \/ named = {}
           THEN UNCHANGED <<draws, sequences>>               \* ProgrammingError
           ELSE LET seq == CHOOSE q \in named : TRUE
                    value == nextval(seq)
                IN  IF BigLess(seq.maxvalue, value)
                    THEN UNCHANGED <<draws, sequences>>      \* reached maximum value
                    ELSE /\ draws' = Append(draws, [table |-> m.table, shard |-> shard_id,
                                                    value |-> value, by |-> c])
                         /\ sequences' = (sequences \ {seq})
                                            \cup {[seq EXCEPT !.last = value]}
    /\ UNCHANGED <<apiVars, extVars, conn, shardCall, executed, pg_dist_shard, partmethod, batchVars, delVars,
                   schemaVars, scopeVars, txVars, dbVars, histVars, gocVars>>

\* a row as an INSERT statement writes it
ExecRow(cls, id) == [cls |-> cls, key |-> "row", id |-> id, location |-> NoLocation]

\* The row a caller inserts: a row of a distributed table on a connection of the
\* experiment, a row of a main table on the main connection.
ExecRows(c) ==
    IF kind[c] \in ShardKinds
    THEN {ExecRow("mapobjects", min_value(0, ShardCount))}
    ELSE {ExecRow("submissions", BigAdd(BigZero, 1))}

\* Whether __enter__ of the kind puts the connection into autocommit mode:
\* set_isolation_level(ISOLATION_LEVEL_AUTOCOMMIT) is called by
\* _Connection.__enter__ and ExperimentConnection.__enter__ and is commented out in
\* ExperimentWorkerConnection.__enter__.
Autocommit(k) == k \in ConnectionKinds

\* connection.execute(INSERT ...), handed to the cursor by __getattr__
Execute(c, row) ==
    /\ pc[c] = "open"
    /\ kind[c] \in RawKinds
    /\ row \in ExecRows(c)
    /\ \A e \in executed : ~(e.by = c /\ e.row = row)
    /\ \A d \in Callers \ {c} : row \notin txIns[d]          \* waits for that transaction
    /\ IF row \in table
       THEN /\ executed' = executed \cup {[by |-> c, row |-> row, raised |-> "IntegrityError"]}
            /\ UNCHANGED <<table, txIns>>
       ELSE /\ executed' = executed \cup {[by |-> c, row |-> row, raised |-> NoValue]}
            /\ IF Autocommit(kind[c])
               THEN table' = table \cup {row} /\ UNCHANGED txIns
               ELSE txIns' = [txIns EXCEPT ![c] = @ \cup {row}] /\ UNCHANGED table
    /\ UNCHANGED <<apiVars, extVars, conn, shardCall, draws, txDel, txDrop, fs, batchVars, delVars, shardVars,
                   schemaVars, scopeVars, histVars, gocVars>>

(***************************************************************************)
(* SpecSeq: two callers make connections on the experiment and draw ids    *)
(* from the shard sequences.                                               *)
(***************************************************************************)
InitSeq ==
    /\ CustomizedSchema
    /\ ScopeIdle
    /\ TxIdle
    /\ GocIdle
    /\ ConnIdle
    /\ ExtIdle
    /\ ApiIdle
    /\ BatchIdle
    /\ table = {}
    /\ fs = {}

NextSeq ==
    \E c \in Callers :
       \/ \E k \in ShardKinds, host \in Workers \cup {NoValue} : Construct(c, k, host)
       \/ EnterConnection(c)
       \/ SelectSchemaExists(c)
       \/ SetSearchPath(c)
       \/ \E m \in DrawModels, shard_id \in ShardIds, resolved \in BOOLEAN :
             get_shard_specific_unique_id(c, m, shard_id, resolved)
       \/ ExitConnection(c)

SpecSeq == InitSeq /\ [][NextSeq]_vars

(***************************************************************************)
(* SpecAuto: two callers make raw connections of every kind, run INSERT    *)
(* statements through them and leave.                                      *)
(***************************************************************************)
InitAuto == InitSeq

NextAuto ==
    \E c \in Callers :
       \/ \E k \in RawKinds, host \in Workers \cup {NoValue} : Construct(c, k, host)
       \/ EnterConnection(c)
       \/ SelectSchemaExists(c)
       \/ SetSearchPath(c)
       \/ \E row \in ExecRows(c) : Execute(c, row)
       \/ ExitConnection(c)

SpecAuto == InitAuto /\ [][NextAuto]_vars

\* C12: every value get_shard_specific_unique_id(model, s) returned lies in the
\* [shardminvalue, shardmaxvalue] range of shard s, and no two calls for the same
\* table returned the same value, whichever callers made them and whichever shards
\* they named: rows keyed by the drawn ids have pairwise different keys.
C12_DrawsInRangeAndUnique ==
    /\ \A i \in DOMAIN draws :
          \E r \in pg_dist_shard[draws[i].table] :
             /\ r.shardid = draws[i].shard
             /\ BigLeq(r.shardminvalue, draws[i].value)
             /\ BigLeq(draws[i].value, r.shardmaxvalue)
    /\ \A i, j \in DOMAIN draws :
          (i # j /\ draws[i].table = draws[j].table) => draws[i].value # draws[j].value

\* two callers, one of them on a worker connection, drew from the same shard
C12_Witness ==
    /\ Len(draws) = MaxDraws
    /\ draws[1].by # draws[2].by
    /\ draws[1].table = draws[2].table /\ draws[1].shard = draws[2].shard
    /\ \E c \in Callers : kind[c] = "ExperimentWorkerConnection" /\ draws[1].by = c

\* C13 (as claimed): on every kind of raw connection each statement that ran took
\* effect at once and nothing is pending in a transaction that a rollback could
\* undo.
C13_RawConnectionsAutocommit ==
    /\ \A c \in Callers : kind[c] \in RawKinds => txIns[c] = {}
    /\ \A e \in executed : e.raised = NoValue => e.row \in table

(***************************************************************************)
(* SpecRetry: two callers call get_or_create for one key in sessions on    *)
(* the main schema while one of them deletes rows with Query.delete.       *)
(***************************************************************************)
\* the class get_or_create is called with, as Query.delete reads it
ChannelModel ==
    [name |-> "Channel", is_distributed |-> FALSE, attr |-> NoValue, scope |-> "MainSession"]

\* the keyword arguments of the calls
RetryKeys == {"DAPI"}

\* the instances the calls can create
ChannelRows == {Row("Channel", key, c, n) : key \in RetryKeys, c \in Callers, n \in 1..MaxCalls}

InitRetry == InitGoc

NextRetry ==
    \E c \in Callers :
       \/ Connect(c, "MainSession")
       \/ \E key \in RetryKeys : GocCall(c, key)
       \/ GocQuery(c)
       \/ GocInsert(c)
       \/ GocCommit(c)
       \/ GocRollback(c)
       \/ GocReread(c)
       \/ \E matched \in SUBSET ChannelRows : Delete(Deleter, ChannelModel, matched, "ok")
       \/ \E raised \in BOOLEAN : ExitSession(c, raised, "ok")

SpecRetry == InitRetry /\ [][NextRetry]_vars

\* In one step of c's call: the insert is reached only from the first query of a
\* new call, the rollback only from the failed insert, the re-read only from the
\* rollback, and the re-read ends the call (returns or raises) -- so one call makes
\* at most one insert, one rollback and one re-read.
OneRecovery(c) ==
    /\ (gocPc'[c] = "query" /\ gocPc[c] # "query") => gocCalls'[c] = gocCalls[c] + 1
    /\ (gocPc'[c] = "insert" /\ gocPc[c] # "insert") => gocPc[c] = "query"
    /\ (gocPc'[c] = "rollback" /\ gocPc[c] # "rollback") => gocPc[c] = "insert"
    /\ (gocPc'[c] = "reread" /\ gocPc[c] # "reread") => gocPc[c] = "rollback"
    /\ gocPc[c] = "rollback" => gocPc'[c] \in {"rollback", "reread"}
    /\ gocPc[c] = "reread" => gocPc'[c] \in {"reread", "done", "raised"}

\* the re-read of c's call fails in this step
RereadFails(c) == gocPc[c] = "reread" /\ gocPc'[c] = "raised"

\* C14 (as claimed): after a uniqueness violation the call rolls back and re-reads
\* exactly once, without a second insert or re-read, and a failing re-read leaves
\* the call with an IntegrityError.
C14_RereadFailureIsIntegrityError ==
    [][\A c \in Callers :
          /\ OneRecovery(c)
          /\ RereadFails(c) => gocPath'[c] = "IntegrityError"]_vars

\* C14 (amended): after a uniqueness violation the call rolls back and re-reads
\* exactly once, without a second insert or re-read, and a failing re-read leaves
\* the call with the re-read's own exception, NoResultFound or
\* MultipleResultsFound.
C14_RereadFailureIsReraised ==
    [][\A c \in Callers :
          /\ OneRecovery(c)
          /\ RereadFails(c) =>
                gocPath'[c] = (IF FilterBy(c, "Channel", gocKey[c]) = {}
                               THEN "NoResultFound" ELSE "MultipleResultsFound")]_vars

\* a call met the uniqueness violation, rolled back, and its re-read found nothing
C14_Witness ==
    \E c \in Callers : gocPc[c] = "raised" /\ gocPath[c] = "NoResultFound"

(***************************************************************************)
(* Job descriptions of the jterator step.                                  *)
(***************************************************************************)
\* '%.5d' % n and '%.6d' % n: decimal digits, zero-padded to the width
RECURSIVE Zeros(_)
Zeros(k) == IF k <= 0 THEN "" ELSE "0" \o Zeros(k - 1)
Pad(width, n) == Zeros(width - Len(ToString(n))) \o ToString(n)

experiment_dir == <<"experiment">>
pipe_name == "pipe"

\* os.path.join(self.experiment.dir, 'tmaps_%s_%s' % (self.prog_name, self.pipe_name))
project_dir == experiment_dir \o <<"tmaps_jterator_" \o pipe_name>>
figures_dir == project_dir \o <<"figures">>
data_dir == project_dir \o <<"data">>
module_log_dir == project_dir \o <<"log_modules">>

\* self.experiment.data_file
experiment_data_file == experiment_dir \o <<"data.h5">>

\* os.path.join(self.data_dir, '%s_%.5d.data' % (self.pipe_name, job_id))
build_data_filename(job_id) ==
    data_dir \o <<pipe_name \o "_" \o Pad(5, job_id) \o ".data">>

\* module.build_figure_filename(figures_dir, job_id)
build_figure_filename(module, dir, job_id) ==
    dir \o <<module \o "_" \o Pad(5, job_id) \o ".html">>

\* module.build_log_filenames(log_dir, job_id).values(), stdout before stderr
build_log_filenames(module, log_dir, job_id) ==
    <<log_dir \o <<module \o "_" \o Pad(5, job_id) \o ".out">>,
      log_dir \o <<module \o "_" \o Pad(5, job_id) \o ".err">>>>

\* utils.flatten: the elements of the lists of a list, in order
RECURSIVE flatten(_)
flatten(lists) == IF lists = << >> THEN << >> ELSE Head(lists) \o flatten(Tail(lists))

\* the layers a pipeline can name and a cycle can hold metadata for
LayerNames == {"DAPI", "GFP"}

\* A cycle, by its layer_metadata: name -> the number of files of the layer.
Cycles == UNION {[names -> 0..MaxJobs] : names \in SUBSET LayerNames}

\* the pipelines: the names of the modules, in order
Pipelines == {<< >>, <<"segment">>, <<"segment", "measure">>}

\* what create_job_descriptions reads of the object
Projects ==
    {[cycles |-> cs, layer_names |-> ns, pipeline |-> ms] :
        cs \in {<<a>> : a \in Cycles} \cup {<<a, b>> : a \in Cycles, b \in Cycles},
        ns \in SUBSET LayerNames, ms \in Pipelines}

\* [os.path.join(cycle.image_dir, f) for f in md.files] of the k-th cycle
LayerFiles(k, name, n) ==
    [i \in 1..n |-> experiment_dir \o <<"cycle_" \o ToString(k), "images",
                                         name \o "_" \o ToString(i) \o ".png">>]

\* for cycle in self.cycles: image_files.update({md.name: [...] for md in
\* cycle.layer_metadata if md.name in layer_names}) -- a later cycle replaces the
\* entry of an earlier one
image_files(p) ==
    LET has(name) == {k \in DOMAIN p.cycles : name \in DOMAIN p.cycles[k]}
        last(name) == CHOOSE k \in has(name) : \A j \in has(name) : j <= k
    IN  [name \in {x \in p.layer_names : has(x) # {}} |->
            LayerFiles(last(name), name, p.cycles[last(name)][name])]

\* (mutant) the id of a run job is the zero-based index
RunJob_ZeroBased(i, batch, pipeline) ==
    [id |-> i,
     inputs |-> [image_files |-> batch],
     outputs |->
        [data_files |-> <<build_data_filename(i + 1)>>,
         figure_files |-> [m \in DOMAIN pipeline |->
                              build_figure_filename(pipeline[m], figures_dir, i + 1)],
         log_files |-> flatten([m \in DOMAIN pipeline |->
                                   build_log_filenames(pipeline[m], module_log_dir, i + 1)])]]

\* the description of the run job of the i-th batch, i counted from 0 by enumerate
RunJob(i, batch, pipeline) ==
    [id |-> i + 1,
     inputs |-> [image_files |-> batch],
     outputs |->
        [data_files |-> <<build_data_filename(i + 1)>>,
         figure_files |-> [m \in DOMAIN pipeline |->
                              build_figure_filename(pipeline[m], figures_dir, i + 1)],
         log_files |-> flatten([m \in DOMAIN pipeline |->
                                   build_log_filenames(pipeline[m], module_log_dir, i + 1)])]]

\* (mutant) the collect job reads the data files of the zero-based indices
CollectJob_ZeroBased(n) ==
    [inputs |-> [data_files |-> [k \in 1..n |-> build_data_filename(k - 1)]],
     outputs |-> [data_files |-> <<experiment_data_file>>]]

\* joblist['collect'] for n batches
CollectJob(n) ==
    [inputs |-> [data_files |-> [k \in 1..n |-> build_data_filename((k - 1) + 1)]],
     outputs |-> [data_files |-> <<experiment_data_file>>]]

\* create_job_descriptions(); checked: check_pipeline() passes; first: the layer
\* image_files.values()[0] belongs to, any one of the dictionary
create_job_descriptions(checked, first) ==
    /\ ~joblist.called
    /\ LET files == image_files(project)
           raise(e) == joblist' = [NoJoblist EXCEPT !.raised = e, !.called = TRUE]
       IN  /\ IF DOMAIN files = {} THEN first = NoValue ELSE first \in DOMAIN files
           /\ IF ~checked THEN raise("PipelineDescriptionError")
              ELSE IF DOMAIN files = {} THEN raise("IndexError")    \* values()[0]
              ELSE LET n == Len(files[first])
                   IN  IF \E name \in DOMAIN files : Len(files[name]) < n
                       THEN raise("IndexError")                     \* v[i]
                       ELSE joblist' =
                               [run |-> [k \in 1..n |->
                                            RunJob(k - 1,
                                                   [name \in DOMAIN files |-> files[name][k]],
                                                   project.pipeline)],
                                collect |-> CollectJob(n),
                                raised |-> NoValue, called |-> TRUE]
    /\ UNCHANGED <<extVars, project, runJobs, loaded, logFiles, logOut, connVars, batchVars, delVars, shardVars, schemaVars,
                   scopeVars, txVars, dbVars, histVars, gocVars>>

(***************************************************************************)
(* SpecCreate: create_job_descriptions is called on a project with one or  *)
(* two cycles.                                                             *)
(***************************************************************************)
InitCreate ==
    /\ ShardIdle
    /\ schemas = {}
    /\ tablesIn = {}
    /\ customizeRuns = 0
    /\ ScopeIdle
    /\ TxIdle
    /\ GocIdle
    /\ ConnIdle
    /\ ExtIdle
    /\ BatchIdle
    /\ table = {}
    /\ fs = {}
    /\ project \in Projects
    /\ joblist = NoJoblist
    /\ runJobs = NoRunJobs
    /\ loaded = NoLoaded
    /\ logFiles = {}
    /\ logOut = NoLogOut

NextCreate ==
    \E checked \in BOOLEAN, first \in LayerNames \cup {NoValue} :
       create_job_descriptions(checked, first)

SpecCreate == InitCreate /\ [][NextCreate]_vars

\* create_job_descriptions returned a job list
Created == joblist.called /\ joblist.raised = NoValue

\* the number of work units: the image files every layer has
WorkUnits ==
    LET files == image_files(project)
    IN  CHOOSE n \in 0..MaxJobs :
           /\ \A name \in DOMAIN files : n <= Len(files[name])
           /\ \E name \in DOMAIN files : n = Len(files[name])

\* C15: the run batches of a returned job list have the ids 1..N for the N work
\* units, and the i-th batch of the list has id i.
C15_RunIdsDense ==
    Created =>
       /\ Len(joblist.run) = WorkUnits
       /\ \A i \in DOMAIN joblist.run : joblist.run[i].id = i
       /\ {joblist.run[i].id : i \in DOMAIN joblist.run} = 1..WorkUnits

\* a job list of as many run batches as the bound allows
C15_Witness == Created /\ Len(joblist.run) = MaxJobs

\* the elements of a list
Range(list) == {list[i] : i \in DOMAIN list}

\* every path a run batch declares as output, under whatever key
RunOutputs ==
    UNION {Range(joblist.run[i].outputs[key]) :
              i \in DOMAIN joblist.run, key \in {"data_files", "figure_files", "log_files"}}

\* the paths the collect batch declares as input
CollectInputs == Range(joblist.collect.inputs.data_files)

\* C16 (as claimed): a returned job list has N run batches and a collect batch
\* whose inputs are the outputs of the run batches: every output path of a run
\* batch is a collect input and there is no other collect input.
C16_CollectInputsAreRunOutputs ==
    Created =>
       /\ Len(joblist.run) = WorkUnits
       /\ CollectInputs = RunOutputs

\* C16 (amended): a returned job list has N run batches and a collect batch whose
\* inputs are the data files the run batches declare as outputs, one per batch in
\* the order of the batches; the figure and log files of the run batches are not
\* collect inputs.
C16_CollectInputsAreRunDataFiles ==
    Created =>
       /\ Len(joblist.run) = WorkUnits
       /\ joblist.collect.inputs.data_files =
             [i \in DOMAIN joblist.run |-> joblist.run[i].outputs.data_files[1]]
       /\ \A i \in DOMAIN joblist.run :
             /\ Len(joblist.run[i].outputs.data_files) = 1
             /\ \A key \in {"figure_files", "log_files"} :
                   Range(joblist.run[i].outputs[key]) \cap CollectInputs = {}
       /\ \A i, j \in DOMAIN joblist.run :
             i # j => joblist.run[i].outputs.data_files # joblist.run[j].outputs.data_files

\* a job list of two or more run batches of a pipeline with modules
C16_Witness ==
    /\ Created
    /\ Len(joblist.run) = MaxJobs
    /\ project.pipeline # << >>
    /\ joblist.run[1].outputs.figure_files # << >>

(***************************************************************************)
(* Jobs of the run phase.                                                  *)
(***************************************************************************)
\* Python values by type; val is the number of an int, the tenths of a float and
\* the length of a str.
PyNone == [type |-> "NoneType", val |-> 0]
PyInt(n) == [type |-> "int", val |-> n]
PyFloat(tenths) == [type |-> "float", val |-> tenths]
PyStr(length) == [type |-> "str", val |-> length]

\* if value: -- None, 0, 0.0 and '' are false
Truthy(value) == value.type # "NoneType" /\ value.val # 0

\* the arguments of create_run_jobs
JobIdLists == {[i \in 1..n |-> i] : n \in 0..MaxJobs}
DurationValues == {PyNone, PyStr(0), PyStr(8)}
MemoryValues == {PyNone, PyInt(0), PyInt(500)}
CoresValues == {PyNone, PyInt(0 - 1), PyInt(0), PyInt(1), PyInt(2), PyFloat(15),
                PyStr(0), PyStr(1)}

\* RunJob(step_name, arguments, output_dir, job_id, submission_id): a job with the
\* resource requests the scheduler defaults to
NewRunJob(j) ==
    [job_id |-> j, requested_walltime |-> PyNone, requested_memory |-> PyNone,
     requested_cores |-> PyNone]

\* the body of the loop after the job is made, for arguments that pass the checks
WithResources(job, duration, memory, cores) ==
    [job EXCEPT !.requested_walltime = IF Truthy(duration) THEN duration ELSE @,
                !.requested_memory = IF Truthy(memory) THEN memory ELSE @,
                !.requested_cores = IF Truthy(cores) THEN cores ELSE @]

\* What the checks in the loop raise for cores, or NoValue
CoresRaises(cores) ==
    IF ~Truthy(cores) THEN NoValue                      \* if cores:
    ELSE IF cores.type # "int" THEN "TypeError"         \* not isinstance(cores, int)
    ELSE IF ~(cores.val > 0) THEN "ValueError"          \* not cores > 0
    ELSE NoValue

\* create_run_jobs(submission_id, job_ids, duration, memory, cores)
create_run_jobs(job_ids, duration, memory, cores) ==
    /\ LET args == [job_ids |-> job_ids, duration |-> duration, memory |-> memory,
                    cores |-> cores]
       IN  IF job_ids # << >> /\ CoresRaises(cores) # NoValue     \* raised in the first pass
           THEN runJobs' = [called |-> TRUE, args |-> args,
                            raised |-> CoresRaises(cores), jobs |-> << >>]
           ELSE runJobs' = [called |-> TRUE, args |-> args, raised |-> NoValue,
                            jobs |-> [k \in DOMAIN job_ids |->
                                         WithResources(NewRunJob(job_ids[k]),
                                                       duration, memory, cores)]]
    /\ UNCHANGED <<extVars, project, joblist, loaded, logFiles, logOut, connVars, batchVars, delVars, shardVars, schemaVars,
                   scopeVars, txVars, dbVars, histVars, gocVars>>

(***************************************************************************)
(* SpecJobs: create_run_jobs is called, again and again, with arguments of *)
(* every kind.                                                             *)
(***************************************************************************)
InitJobs ==
    /\ ShardIdle
    /\ schemas = {}
    /\ tablesIn = {}
    /\ customizeRuns = 0
    /\ ScopeIdle
    /\ TxIdle
    /\ GocIdle
    /\ ConnIdle
    /\ ExtIdle
    /\ ApiIdle
    /\ BatchIdle
    /\ table = {}
    /\ fs = {}

NextJobs ==
    \E job_ids \in JobIdLists, duration \in DurationValues, memory \in MemoryValues,
       cores \in CoresValues :
          create_run_jobs(job_ids, duration, memory, cores)

SpecJobs == InitJobs /\ [][NextJobs]_vars

\* a positive integer
PositiveInt(value) == value.type = "int" /\ value.val > 0

\* C17 (as claimed): a call with cores given and not a positive integer fails with
\* TypeError or ValueError and returns no jobs; a call that returns leaves the
\* request of every job at the default for each of cores, duration and memory that
\* is None.
C17_CoresValidated ==
    runJobs.called =>
       /\ (runJobs.args.cores # PyNone /\ ~PositiveInt(runJobs.args.cores)) =>
             runJobs.raised \in {"TypeError", "ValueError"} /\ runJobs.jobs = << >>
       /\ runJobs.raised = NoValue =>
             \A k \in DOMAIN runJobs.jobs :
                /\ runJobs.args.cores = PyNone =>
                      runJobs.jobs[k].requested_cores = PyNone
                /\ runJobs.args.duration = PyNone =>
                      runJobs.jobs[k].requested_walltime = PyNone
                /\ runJobs.args.memory = PyNone =>
                      runJobs.jobs[k].requested_memory = PyNone

(***************************************************************************)
(* The value types write_batch_files takes.                                *)
(***************************************************************************)
\* the batches of a batch set, run and collect
BatchesOf(bs) == Range(bs.run) \cup Range(bs.collect)

\* the kinds of the values under a key of the batches as given
KindsUnder(bs, key) ==
    UNION {{b[key][k].kind : k \in DOMAIN b[key]} : b \in BatchesOf(bs)}

\* the batches of a batch set whose values under "inputs" and "outputs" are all of
\* the kinds named
OfKinds(bs, inputKinds, outputKinds) ==
    {b \in BatchesOf(bs) :
        /\ \A k \in DOMAIN b.inputs : b.inputs[k].kind \in inputKinds
        /\ \A k \in DOMAIN b.outputs : b.outputs[k].kind \in outputKinds}

\* write_batch_files was called and took the batches: no error, a file for each
Accepted ==
    /\ bpc = "written"
    /\ batchErr = NoValue
    /\ Cardinality(batchFiles) = Len(given.run) + Len(given.collect)

\* write_batch_files was called and failed with the error of a wrong type
Rejected == bpc = "written" /\ batchErr = "TypeError"

glob_All(files, job) == files

\* glob.glob(os.path.join(self.batches_location, pattern)): the batch files of the
\* run jobs ('*_run_*.batch.json') or of the collect job ('*_collect.batch.json')
glob(files, job) == {e \in files : e.file.job = job}

\* the orders glob can list the run files in
FileOrders ==
    UNION {{order \in [1..n -> {build_batch_filename_for_run_job(i) : i \in 1..MaxJobs}] :
               \A i, j \in 1..n : i # j => order[i] # order[j]} : n \in 0..MaxJobs}

\* read_batch_file(f) for a file that exists
ReadBatch(e) == make_paths_absolute(e.content)

\* get_batches_from_files(); order: the order glob lists the run files in
get_batches_from_files(order) ==
    /\ LET run_job_files == glob(batchFiles, "run")
           collect_job_files == glob(batchFiles, "collect")
       IN  /\ {order[i] : i \in DOMAIN order} = {e.file : e \in run_job_files}
           /\ IF run_job_files = {}
              THEN loaded' = [called |-> TRUE, raised |-> "JobDescriptionError",
                              run |-> << >>, collect |-> << >>]
              ELSE loaded' =
                      [called |-> TRUE, raised |-> NoValue,
                       run |-> [i \in DOMAIN order |->
                                   ReadBatch(CHOOSE e \in run_job_files : e.file = order[i])],
                       collect |-> IF collect_job_files = {} THEN << >>
                                   ELSE <<ReadBatch(CHOOSE e \in collect_job_files : TRUE)>>]
    /\ UNCHANGED <<extVars, project, joblist, runJobs, logFiles, logOut, connVars, batchVars, delVars, shardVars,
                   schemaVars, scopeVars, txVars, dbVars, histVars, gocVars>>

\* the batches the steps of SpecLoad hold: run jobs 1..n with lists or dicts of
\* paths as inputs, with or without a collect job
LoadSets ==
    {[run |-> [k \in 1..n |-> RunBatch(k, i, List(<<Str(PathB)>>))], collect |-> c] :
        n \in 0..MaxJobs,
        i \in {v \in InputValues : v.kind \in {"list", "dict"}},
        c \in {<< >>, <<CollectBatch(List(<<Str(PathB)>>), List(<<Str(PathA)>>))>>}}

(***************************************************************************)
(* SpecLoad: a step writes its batches once and gets the batches from the  *)
(* files, before or after.                                                 *)
(***************************************************************************)
InitLoad ==
    /\ ShardIdle
    /\ schemas = {}
    /\ tablesIn = {}
    /\ customizeRuns = 0
    /\ ScopeIdle
    /\ TxIdle
    /\ GocIdle
    /\ ConnIdle
    /\ ExtIdle
    /\ ApiIdle
    /\ table = {}
    /\ fs = {}
    /\ given \in LoadSets
    /\ batches = given
    /\ batchFiles = {}
    /\ readBack = NoRead
    /\ batchErr = NoValue
    /\ bpc = "init"

NextLoad ==
    \/ write_batch_files
    \/ \E order \in FileOrders : get_batches_from_files(order)

SpecLoad == InitLoad /\ [][NextLoad]_vars

Stamps == {[day |-> 9, hour |-> 17], [day |-> 10, hour |-> 8], [day |-> 10, hour |-> 17]}

\* the run jobs with log files
LogJobIds == {1, 2}

\* a log file: '<step>_run_<job id, 6 digits>_<stamp>.<ext>' of a run job,
\* '<step>_collect_<stamp>.<ext>' of the collect job (job_id 0); the content tells
\* the files apart
LogFile(job, job_id, stamp, ext) ==
    [job |-> job, job_id |-> job_id, stamp |-> stamp, ext |-> ext,
     content |-> <<job, job_id, stamp, ext>>]

LogFiles ==
    {LogFile("run", j, t, ext) : j \in LogJobIds, t \in Stamps, ext \in {"out", "err"}}
       \cup {LogFile("collect", 0, t, ext) : t \in Stamps, ext \in {"out", "err"}}

\* the log files a submission leaves: both streams of every job it ran
SubmissionLogs(t, jobs) ==
    {f \in LogFiles : f.stamp = t /\ (f.job = "collect" \/ f.job_id \in jobs)}

\* The numbers in the name of a log file, in the order of the name; the text between
\* them is the same for the files of one pattern.
NaturalKey(f) == <<f.job_id, f.stamp.day, f.stamp.hour>>

\* natural order of two names: the first number that differs decides
RECURSIVE NaturalLess(_, _)
NaturalLess(a, b) ==
    IF a = << >> \/ b = << >> THEN a = << >> /\ b # << >>
    ELSE IF Head(a) # Head(b) THEN Head(a) < Head(b)
    ELSE NaturalLess(Tail(a), Tail(b))

\* (mutant) the first file in natural order
natsorted_last_First(files) ==
    CHOOSE f \in files : \A g \in files \ {f} : NaturalLess(NaturalKey(f), NaturalKey(g))

\* natsorted(files)[-1]
natsorted_last(files) ==
    CHOOSE f \in files : \A g \in files \ {f} : NaturalLess(NaturalKey(g), NaturalKey(f))

\* glob.glob of '*_run*_<job id>*.<ext>' (job_id given) or '*_collect*.<ext>'
\* (job_id None, here 0) in the log directory
glob_logs(job_id, ext) ==
    {f \in logFiles :
        /\ f.ext = ext
        /\ IF job_id # 0 THEN f.job = "run" /\ f.job_id = job_id ELSE f.job = "collect"}

\* get_log_output_from_files(job_id)
get_log_output_from_files(job_id) ==
    /\ LET stdout_files == glob_logs(job_id, "out")
           stderr_files == glob_logs(job_id, "err")
       IN  IF stdout_files = {} \/ stderr_files = {}
           THEN logOut' = [called |-> TRUE, job_id |-> job_id, raised |-> "IOError",
                           log |-> << >>]
           ELSE logOut' = [called |-> TRUE, job_id |-> job_id, raised |-> NoValue,
                           log |-> <<[stdout |-> natsorted_last(stdout_files).content,
                                      stderr |-> natsorted_last(stderr_files).content]>>]
    /\ UNCHANGED <<extVars, project, joblist, runJobs, loaded, logFiles, connVars, batchVars, delVars,
                   shardVars, schemaVars, scopeVars, txVars, dbVars, histVars, gocVars>>

(***************************************************************************)
(* SpecLog: the log directory holds the files of some submissions of run   *)
(* jobs and of the collect job; the log output of a job is asked for.      *)
(***************************************************************************)
InitLog ==
    /\ ShardIdle
    /\ schemas = {}
    /\ tablesIn = {}
    /\ customizeRuns = 0
    /\ ScopeIdle
    /\ TxIdle
    /\ GocIdle
    /\ ConnIdle
    /\ ExtIdle
    /\ BatchIdle
    /\ table = {}
    /\ fs = {}
    /\ project = NoProject
    /\ joblist = NoJoblist
    /\ runJobs = NoRunJobs
    /\ loaded = NoLoaded
    /\ logFiles \in {UNION {SubmissionLogs(t, ran[t]) : t \in submitted} :
                        submitted \in SUBSET Stamps,
                        ran \in [Stamps -> SUBSET LogJobIds]}
    /\ logOut = NoLogOut

NextLog == \E job_id \in LogJobIds \cup {0} : get_log_output_from_files(job_id)

SpecLog == InitLog /\ [][NextLog]_vars

\* the hours from the start of the month to the stamp
Hours(stamp) == stamp.day * 24 + stamp.hour

\* the log files of the job and the stream that the latest submission wrote
Latest(job_id, ext) ==
    {f \in glob_logs(job_id, ext) :
        \A g \in glob_logs(job_id, ext) : Hours(g.stamp) <= Hours(f.stamp)}

\* C20: a call that returns gives, for the job asked for, the content of the stdout
\* file and of the stderr file of the latest submission that has log files of the
\* job, for a run job and for the collect job.
C20_LatestLogOutput ==
    (logOut.called /\ logOut.raised = NoValue) =>
       /\ \E f \in Latest(logOut.job_id, "out") : logOut.log[1].stdout = f.content
       /\ \E f \in Latest(logOut.job_id, "err") : logOut.log[1].stderr = f.content

\* the log output of a run job with files of two submissions or more, the latest of
\* them not the last day's first hour
C20_Witness ==
    /\ logOut.called /\ logOut.raised = NoValue
    /\ logOut.job_id # 0
    /\ Cardinality(glob_logs(logOut.job_id, "out")) >= 2
    /\ logOut.log[1].stdout[3] = [day |-> 10, hour |-> 8]

(***************************************************************************)
(* drop_and_recreate: a table is dropped and created again, and the        *)
(* locations of its rows are removed from disk.                            *)
(***************************************************************************)
\* how many drop_and_recreate calls a caller makes at most
MaxDrops == 2

\* self._schema: None in a MainSession, the schema of the experiment otherwise
SessionSchema(k) == IF k = "MainSession" THEN NoValue ELSE "experiment"

\* experiment_specific_metadata.tables: copies of the tables of ExperimentModel, each
\* under the key the metadata gives it ('<schema>.<table>', or '<table>' without one)
MetadataKey(schema, name) == IF schema = NoValue THEN <<name>> ELSE <<schema, name>>
MetadataTables(schema) == {MetadataKey(schema, name) : name \in ExperimentModels}

\* table_name = '{schema}.{table}'.format(...): str.format writes None as 'None'
FormatTableName(schema, name) == <<schema, name>>

\* the table of the model is in the schema of the experiment
TableExists(name) ==
    /\ ExpId \in tablesIn
    /\ ~\E c \in Callers : dropOp[c].model = name /\ dropOp[c].at = "dropped"

\* drop_and_recreate(model) up to table.drop(connection): the table is looked up in
\* the metadata, the locations are read, the session commits and the table is dropped
\* on the connection of the session, outside a transaction.
DropTable(c, m) ==
    /\ pc[c] = "open"
    /\ kind[c] \in SessionKinds
    /\ gocPc[c] \in {"idle", "done"}
    /\ dropOp[c].n < MaxDrops
    /\ LET schema == SessionSchema(kind[c])
           rows == {r \in Visible(c) : r.cls = m.name}
           locations == IF m.attr # NoValue THEN {r.location : r \in rows} ELSE {}
           called(at, raised, found, before) ==
              dropOp' = [dropOp EXCEPT ![c] =
                            [n |-> @.n + 1, model |-> m.name, raised |-> raised, at |-> at,
                             rows |-> found, locations |-> locations, before |-> before]]
       IN  IF FormatTableName(schema, m.name) \notin MetadataTables(schema)
           THEN /\ called("done", "KeyError", {}, {})
                /\ UNCHANGED <<searchPath, pc, table, fs, txVars, shardVars, schemaVars>>
           ELSE IF TableExists(m.name)
           THEN /\ called("dropped", NoValue, rows,
                          {f \in fs : \E l \in locations : IsUnder(f.path, l)})
                /\ table' = {r \in (table \ txDel[c]) \cup txIns[c] : r.cls # m.name}
                /\ TxEnds(c)
                /\ PathCommitted(c)
                /\ pc' = [pc EXCEPT ![c] = "create_table"]
                /\ UNCHANGED <<fs, shardVars, schemaVars>>
           ELSE /\ called("dropped", NoValue, {}, {})
                /\ pc' = [pc EXCEPT ![c] = "create_table"]
                /\ UNCHANGED <<searchPath, table, fs, txVars, shardVars, schemaVars>>
    /\ UNCHANGED <<listed, engVars, jobRun, pool, apiVars, connVars, batchVars, delVars, checkedOut, kind, exists, err, exitHow,
                   histVars, gocVars>>

\* table.create(connection)
CreateTable(c) ==
    /\ pc[c] = "create_table"
    /\ pc' = [pc EXCEPT ![c] = "remove_locations"]
    /\ dropOp' = [dropOp EXCEPT ![c].at = "created"]
    /\ UNCHANGED <<extNotDrop, apiVars, connVars, batchVars, delVars, shardVars, schemaVars, checkedOut, kind,
                   exists, err, exitHow, txVars, dbVars, histVars, gocVars>>

\* for loc in locations_to_remove: delete_location(loc)
RemoveLocations(c) ==
    /\ pc[c] = "remove_locations"
    /\ pc' = [pc EXCEPT ![c] = "open"]
    /\ fs' = DeleteLocations(fs, dropOp[c].locations)
    /\ dropOp' = [dropOp EXCEPT ![c].at = "done"]
    /\ UNCHANGED <<extNotDrop, apiVars, connVars, batchVars, delVars, shardVars, schemaVars, checkedOut, kind,
                   exists, err, exitHow, txVars, table, histVars, gocVars>>

(***************************************************************************)
(* SpecDrop: one caller enters session scopes on the main schema and on    *)
(* the schema of the experiment, which exists with its rows, adds rows,    *)
(* calls drop_and_recreate and leaves.                                     *)
(***************************************************************************)
\* the rows of the experiment whose location on disk is set
LocatedRows == {r \in ExperimentRows : r.cls \in {"Mapobject"} \/ r.location # NoLocation}

InitDrop ==
    /\ schemas = {ExpId}
    /\ tablesIn = {ExpId}
    /\ pg_dist_shard = [t \in tables_to_distribute_by_range |->
                           CustomizedShards(NewShards(t, ShardCount))]
    /\ partmethod = [t \in tables_to_distribute_by_range |-> "r"]
    /\ sequences = UNION {ShardSequences(t, NewShards(t, ShardCount)) :
                          t \in tables_to_distribute_by_range}
    /\ customizeRuns = 1
    /\ table = MainRows \cup LocatedRows
    /\ ScopeIdle
    /\ TxIdle
    /\ GocIdle
    /\ ConnIdle
    /\ ApiIdle
    /\ BatchIdle
    /\ fs \in FsStates
    /\ dropOp = [c \in Callers |-> NoDrop]
    /\ listed = NoListed
    /\ EngIdle
    /\ PoolIdle
    /\ jobRun = NoJobRun

NextDrop ==
    \/ \E k \in SessionKinds : Connect(Deleter, k)
    \/ SelectSchemaExists(Deleter)
    \/ SetSearchPath(Deleter)
    \/ BodyAdd(Deleter)
    \/ \E m \in Models : DropTable(Deleter, m)
    \/ \E raised \in BOOLEAN : ExitSession(Deleter, raised, "ok")
    \/ CreateTable(Deleter)
    \/ RemoveLocations(Deleter)

SpecDrop == InitDrop /\ [][NextDrop]_vars

\* a drop_and_recreate call of the caller has returned or raised
Dropped(c) == dropOp[c].n > 0 /\ dropOp[c].at = "done"

\* C21 (as claimed): a drop_and_recreate(model) call leaves the table of the model
\* existing and empty in the schema of the session, with nothing on disk at the
\* location of any row the table held before, and removes locations only after the
\* table was dropped and created again.
C21_DropLeavesTableEmptyAndLocationsGone ==
    \A c \in Callers :
       /\ Dropped(c) =>
             /\ dropOp[c].raised = NoValue
             /\ TableExists(dropOp[c].model)
             /\ ~\E r \in table : r.cls = dropOp[c].model
             /\ dropOp[c].before \cap fs = {}
       /\ (dropOp[c].n > 0 /\ dropOp[c].at \in {"dropped", "created"}) =>
             dropOp[c].before \subseteq fs

(***************************************************************************)
(* The order of the row delete, its commit and the removal of locations.   *)
(***************************************************************************)
\* C22 (as claimed): in no reachable state is anything that was on disk at the
\* location of an instance already removed while the row delete of that instance
\* is still pending in the transaction of the session, not committed.
C22_LocationRemovedOnlyAfterCommit ==
    \A c \in Callers :
       \A r \in txDel[c] \cap lastOp[c].matched :
          (lastOp[c].raised = NoValue /\ r.location # NoLocation) =>
             \A f \in lastOp[c].before : IsUnder(f.path, r.location) => f \in fs

(***************************************************************************)
(* The schema of an experiment and the reference that owns it.             *)
(***************************************************************************)
\* the persisted reference rows of experiment x
References(rows, x) == {r \in rows : r.cls = "ExperimentReference" /\ r.id[3] = x}

ValuesOf(items) ==
    CHOOSE s \in [1..Cardinality(DOMAIN items) -> {items[k] : k \in DOMAIN items}] :
       \E order \in [1..Cardinality(DOMAIN items) -> DOMAIN items] :
          /\ \A i, j \in DOMAIN order : i # j => order[i] # order[j]
          /\ \A i \in DOMAIN order : s[i] = items[order[i]]

\* utils.flatten of a Python list whose elements are lists
FlattenLists(values) == flatten([i \in 1..Len(values) |-> values[i].val])

\* all([isinstance(f, list) for f in files]); all([]) is True
AllLists(files) == \A i \in 1..Len(files) : files[i].kind = "list"

\* any([isinstance(f, dict) for f in run_files])
AnyDict(files) == \E i \in 1..Len(files) : files[i].kind = "dict"

\* the elements of a list that pass the test, in order
RECURSIVE DictsOf(_)
DictsOf(files) ==
    IF files = << >> THEN << >>
    ELSE (IF Head(files).kind = "dict" THEN <<Head(files)>> ELSE << >>) \o DictsOf(Tail(files))

\* if all(...): flatten; if all(...): flatten again; extend -- else: extend
FlattenTwice(files) ==
    IF AllLists(files)
    THEN LET once == FlattenLists(files)
         IN  IF AllLists(once) THEN FlattenLists(once) ELSE once
    ELSE files

\* utils.flatten([self._make_paths_absolute(j)[key].values() for j in batches['run']])
RunValues(run, key) ==
    flatten([i \in 1..Len(run) |-> ValuesOf(make_paths_absolute(run[i])[key])])

\* list_input_files(batches), when no batch raises
list_input_files(bs) ==
    IF bs.run = << >> THEN << >>
    ELSE LET run_files == RunValues(bs.run, "inputs")
         IN  IF AllLists(run_files) THEN FlattenTwice(run_files)
             ELSE IF AnyDict(run_files)
             THEN flatten([i \in 1..Len(DictsOf(run_files)) |->
                              FlattenLists(ValuesOf(DictsOf(run_files)[i].val))])
             ELSE run_files

\* list_output_files(batches), when no batch raises
list_output_files(bs) ==
    (IF bs.run = << >> THEN << >> ELSE FlattenTwice(RunValues(bs.run, "outputs")))
       \o (IF bs.collect = << >> THEN << >>
           ELSE FlattenTwice(FlattenLists(ValuesOf(bs.collect[1].outputs))))

\* One call of list_input_files or list_output_files on the batches the step holds;
\* _make_paths_absolute changes the run batches in place and raises the TypeError of
\* its loops.
ListFiles(which) ==
    /\ listed.called = NoValue
    /\ IF \E i \in 1..Len(batches.run) : PathsRaise(batches.run[i])
       THEN /\ listed' = [called |-> which, raised |-> "TypeError", files |-> << >>]
            /\ UNCHANGED batches
       ELSE /\ listed' = [called |-> which, raised |-> NoValue,
                          files |-> IF which = "inputs" THEN list_input_files(batches)
                                    ELSE list_output_files(batches)]
            /\ batches' = [batches EXCEPT !.run = [i \in 1..Len(@) |->
                                                     make_paths_absolute(@[i])]]
    /\ UNCHANGED <<extNotList, given, batchFiles, readBack, batchErr, bpc, apiVars, connVars,
                   delVars, shardVars, schemaVars, scopeVars, txVars, dbVars, histVars, gocVars>>

(***************************************************************************)
(* SpecList: a step holds batches whose values have the shapes the steps   *)
(* use -- lists of paths, lists of lists of paths, mappings of lists of    *)
(* paths -- with paths relative to the workflow location, and lists its    *)
(* input files or its output files.                                        *)
(***************************************************************************)
RelA == <<"a.tif">>
RelB == <<"step", "b.tif">>
RelC == <<"step", "c.h5">>

ListInputShapes ==
    {List(<< >>),
     List(<<Str(RelA), Str(RelC)>>),
     List(<<List(<<Str(RelA)>>), List(<<Str(RelB)>>)>>),
     Dict([layer \in {"DAPI", "GFP"} |->
              IF layer = "DAPI" THEN List(<<Str(RelA)>>) ELSE List(<<Str(RelB)>>)]),
     Num}

ListOutputShapes ==
    {List(<< >>), List(<<Str(RelC)>>), List(<<List(<<Str(RelC)>>), List(<<Str(RelA)>>)>>)}

\* the values of a batch under one key or under two
Keyed(shapes) ==
    UNION {[keys -> shapes] : keys \in {{"files"}, {"files", "more_files"}}}

ListSets ==
    LET jobs == {[id |-> 1, inputs |-> i, outputs |-> o] :
                    i \in Keyed(ListInputShapes), o \in Keyed(ListOutputShapes)}
        second == [id |-> 2, inputs |-> [key \in {"files"} |-> List(<<Str(RelB)>>)],
                   outputs |-> [key \in {"files"} |-> List(<<Str(RelA)>>)]]
        collects == {<< >>,
                     <<[inputs |-> [key \in {"files"} |-> List(<<Str(RelC)>>)],
                        outputs |-> [key \in {"files"} |-> List(<<Str(RelB)>>)]]>>}
    IN  {[run |-> r, collect |-> c] :
            r \in {<< >>} \cup {<<j>> : j \in jobs} \cup {<<j, second>> : j \in jobs},
            c \in collects}

InitList ==
    /\ ShardIdle
    /\ schemas = {}
    /\ tablesIn = {}
    /\ customizeRuns = 0
    /\ ScopeIdle
    /\ TxIdle
    /\ GocIdle
    /\ ConnIdle
    /\ ApiIdle
    /\ table = {}
    /\ fs = {}
    /\ given \in ListSets
    /\ batches = given
    /\ batchFiles = {}
    /\ readBack = NoRead
    /\ batchErr = NoValue
    /\ bpc = "written"
    /\ dropOp = [c \in Callers |-> NoDrop]
    /\ listed = NoListed
    /\ EngIdle
    /\ PoolIdle
    /\ jobRun = NoJobRun

NextList == \E which \in {"inputs", "outputs"} : ListFiles(which)

SpecList == InitList /\ [][NextList]_vars

\* the paths of the run batches under the key, absolute
RunPaths(bs, key) ==
    UNION {{ToAbsolute(p) : p \in PathsOf(Dict(bs.run[i][key]))} : i \in 1..Len(bs.run)}

\* the paths of the outputs of the collect batch, as they are in the batch
CollectPaths(bs) ==
    UNION {PathsOf(Dict(bs.collect[i].outputs)) : i \in 1..Len(bs.collect)}

\* the paths the call is to list
PathsToList(which, bs) ==
    IF which = "inputs" THEN RunPaths(bs, "inputs")
    ELSE RunPaths(bs, "outputs") \cup CollectPaths(bs)

\* C24 (as claimed): a call that returns gives a flat list -- every element a path,
\* no list and no mapping among them -- that holds every path of the inputs of the
\* run batches (of the outputs of the run batches and of the collect batch),
\* whatever the shapes of the values; without run batches and without a collect
\* batch the list is empty.
C24_FlatListOfEveryPath ==
    (listed.called # NoValue /\ listed.raised = NoValue) =>
       /\ \A i \in 1..Len(listed.files) : listed.files[i].kind = "str"
       /\ PathsOf(List(listed.files)) = PathsToList(listed.called, given)

(***************************************************************************)
(* The engines of a process: set_pool_size and create_db_engine.           *)
(***************************************************************************)
\* how many create_db_engine calls a process makes at most
MaxEngineCalls == 3

\* the sizes set_pool_size is called with
PoolSizes == {-1, 0, 1, 2}

\* set_pool_size(n)
set_pool_size(n) ==
    /\ poolSize' = n
    /\ UNCHANGED <<engines, engCalls>>
    /\ UNCHANGED <<extNotEng, apiVars, connVars, batchVars, delVars, shardVars, schemaVars,
                   scopeVars, txVars, dbVars, histVars, gocVars>>

\* (mutant) the cache is not looked up: every call makes an engine
Cached_Never(uri) == FALSE

\* not (db_uri not in DATABASE_ENGINES)
Cached(uri) == engines[uri] # NoEngine

\* create_db_engine(db_uri, cache)
create_db_engine(db_uri, cache) ==
    /\ Len(engCalls) < MaxEngineCalls
    /\ LET call(engine, raised) ==
              [db_uri |-> db_uri, cache |-> cache, hit |-> Cached(db_uri),
               configured |-> poolSize, engine |-> engine, raised |-> raised]
           created == [id |-> Len(engCalls) + 1, uri |-> db_uri, pool_size |-> poolSize,
                       max_overflow |-> overflow_size(poolSize)]
       IN  IF ~Cached(db_uri)
           THEN IF overflow_size(poolSize) = -1
                THEN /\ engCalls' = Append(engCalls, call(NoEngine, "ValueError"))
                     /\ UNCHANGED engines
                ELSE /\ engCalls' = Append(engCalls, call(created, NoValue))
                     /\ engines' = IF cache THEN [engines EXCEPT ![db_uri] = created]
                                   ELSE engines
           ELSE /\ engCalls' = Append(engCalls, call(engines[db_uri], NoValue))
                /\ UNCHANGED engines
    /\ UNCHANGED poolSize
    /\ UNCHANGED <<extNotEng, apiVars, connVars, batchVars, delVars, shardVars, schemaVars,
                   scopeVars, txVars, dbVars, histVars, gocVars>>

(***************************************************************************)
(* SpecEngine: one process sets the pool size and asks for engines.        *)
(***************************************************************************)
InitEngine ==
    /\ ShardIdle
    /\ schemas = {}
    /\ tablesIn = {}
    /\ customizeRuns = 0
    /\ ScopeIdle
    /\ TxIdle
    /\ GocIdle
    /\ ConnIdle
    /\ ApiIdle
    /\ BatchIdle
    /\ table = {}
    /\ fs = {}
    /\ dropOp = [c \in Callers |-> NoDrop]
    /\ listed = NoListed
    /\ EngIdle
    /\ PoolIdle
    /\ jobRun = NoJobRun

NextEngine ==
    \/ \E n \in PoolSizes : set_pool_size(n)
    \/ \E db_uri \in Uris, cache \in BOOLEAN : create_db_engine(db_uri, cache)

SpecEngine == InitEngine /\ [][NextEngine]_vars

\* the calls that returned an engine
Returned == {i \in 1..Len(engCalls) : engCalls[i].raised = NoValue}

\* the call that made the engine call i returned
MadeBy(i) == engCalls[engCalls[i].engine.id]

\* the size of the pool is the POOL_SIZE of the call that made the engine, default
\* POOL_SIZE and not below 1, whatever POOL_SIZE has become since; a call that finds
\* no engine cached and POOL_SIZE below 1 raises ValueError, returns no engine and
\* caches none
SizedOnce ==
    /\ \A i \in Returned :
          /\ engCalls[i].engine.pool_size = MadeBy(i).configured
          /\ engCalls[i].engine.pool_size >= 1
          /\ engCalls[i].engine.uri = engCalls[i].db_uri
    /\ \A i \in 1..Len(engCalls) :
          (~engCalls[i].hit /\ engCalls[i].configured < 1) <=> engCalls[i].raised = "ValueError"
    /\ \A uri \in Uris :
          Cached(uri) => \E i \in Returned : /\ engCalls[i].engine = engines[uri]
                                             /\ engCalls[i].cache /\ ~engCalls[i].hit
    /\ \A i \in 1..Len(engCalls) \ Returned : engCalls[i].engine = NoEngine

\* C25 (as claimed): every create_db_engine call for one URI returns the same
\* engine, sized once.
C25_SameEngineForEveryCall ==
    /\ \A i, j \in Returned :
          engCalls[i].db_uri = engCalls[j].db_uri => engCalls[i].engine = engCalls[j].engine
    /\ SizedOnce

\* C25 (amended): the create_db_engine calls for one URI that cache (the default)
\* return the same engine, and so does every call made after an engine was cached
\* for the URI; a call with cache=False that finds no engine cached makes an engine
\* of its own.  The pool is sized once, where the engine is made.
C25_SameEngineForCachingCalls ==
    /\ \A i, j \in Returned :
          (/\ engCalls[i].db_uri = engCalls[j].db_uri
           /\ (engCalls[i].cache \/ engCalls[i].hit)
           /\ (engCalls[j].cache \/ engCalls[j].hit)) =>
             engCalls[i].engine = engCalls[j].engine
    /\ \A i \in Returned :
          (~engCalls[i].cache /\ ~engCalls[i].hit) =>
             \A j \in Returned \ {i} : engCalls[j].engine # engCalls[i].engine
    /\ SizedOnce

\* an engine was cached with the default size, the size was set to 0 afterwards, and
\* a later call for the URI got the cached engine with its five connections
C25_Witness ==
    /\ Len(engCalls) >= 2
    /\ poolSize = 0
    /\ \E i, j \in Returned :
          /\ i < j
          /\ engCalls[j].hit /\ engCalls[j].configured = 0
          /\ engCalls[j].engine = engCalls[i].engine
          /\ engCalls[j].engine.pool_size = POOL_SIZE

(***************************************************************************)
(* run_job of the jterator step: the modules of the pipeline are run one   *)
(* after the other.  A text is the sequence of its parts.                  *)
(***************************************************************************)
\* what a module writes to stdout and to stderr while it runs
CapturedOut == {<< >>, <<"segmented 10 objects">>}
CapturedErr == {<< >>, <<"RuntimeWarning">>}

\* the exception _execute_module raises, or NoValue
ModuleExceptions == {NoValue, "PipelineRunError"}

\* error = str(e); for tb in traceback.format_tb(...): error += '\n' + tb
ErrorText(e) == IF e = NoValue THEN << >> ELSE <<e, "Traceback">>

\* module.build_error_message(input_data, stdout, stderr)
build_error_message(name, input_data, stdout, stderr) ==
    <<"Execution of module failed:", name>>
       \o (IF input_data # << >> THEN <<"---[ Module input arguments ]---">> \o input_data
           ELSE << >>)
       \o <<"---[ Module standard output ]---">> \o stdout
       \o <<"---[ Module standard error ]---">> \o stderr

\* module.run(inputs, engine): what the module wrote is captured, an exception of
\* the module is caught and its text and traceback are added to stderr
run(name, inputs, captured_out, captured_err, e) ==
    LET stderr == captured_err \o ErrorText(e)
    IN  [module |-> name, stdout |-> captured_out, stderr |-> stderr,
         success |-> e = NoValue,
         error_message |-> IF e = NoValue THEN << >>
                           ELSE build_error_message(name, inputs, captured_out, stderr)]

\* module.write_output_and_errors(log_files['stdout'], out['stdout'], ...): the two
\* files are opened with 'w+' and written
write_output_and_errors(logs, log_files, out) ==
    {f \in logs : f.file \notin Range(log_files)}
       \cup {[file |-> log_files[1], content |-> out.stdout],
             [file |-> log_files[2], content |-> out.stderr]}

\* (mutant) the success of a module is not looked at
Aborts_Never(out) == FALSE

\* if not out['success']: sys.exit(out['error_message'])
Aborts(out) == ~out.success

\* run_job(batch) up to the loop over the modules: the pipeline is checked, the
\* engines are started and the data file is made
StartJob(job_id, checked) ==
    /\ jobRun.state = "idle"
    /\ jobRun' = [NoJobRun EXCEPT
                     !.job_id = job_id,
                     !.state = IF ~checked THEN "raised"
                               ELSE IF project.pipeline = << >> THEN "finished"
                               ELSE "running",
                     !.raised = IF ~checked THEN "PipelineDescriptionError" ELSE NoValue,
                     !.at = 1]
    /\ UNCHANGED <<extNotRun, apiVars, connVars, batchVars, delVars, shardVars, schemaVars,
                   scopeVars, txVars, dbVars, histVars, gocVars>>

\* One pass of "for module in self.pipeline".  prepared: module.prepare_inputs
\* returned the inputs; it raises otherwise, and the exception leaves run_job.
RunModule(prepared, captured_out, captured_err, e) ==
    /\ jobRun.state = "running"
    /\ LET name == project.pipeline[jobRun.at]
           log_files == build_log_filenames(name, module_log_dir, jobRun.job_id)
           inputs == <<"data_file", "figure_file", "job_id">>
           out == run(name, inputs, captured_out, captured_err, e)
       IN  IF ~prepared
           THEN jobRun' = [jobRun EXCEPT !.state = "raised", !.raised = "PipelineRunError"]
           ELSE jobRun' =
                   [jobRun EXCEPT
                       !.executed = Append(@, out),
                       !.logs = write_output_and_errors(@, log_files, out),
                       !.exit = IF Aborts(out) THEN out.error_message ELSE @,
                       !.state = IF Aborts(out) THEN "exited"
                                 ELSE IF jobRun.at = Len(project.pipeline) THEN "finished"
                                 ELSE "running",
                       !.at = IF Aborts(out) THEN @ ELSE @ + 1]
    /\ UNCHANGED <<extNotRun, apiVars, connVars, batchVars, delVars, shardVars, schemaVars,
                   scopeVars, txVars, dbVars, histVars, gocVars>>

(***************************************************************************)
(* SpecRun: one run job of a pipeline of no, one, two or three modules.    *)
(***************************************************************************)
RunPipelines == Pipelines \cup {<<"segment", "measure", "classify">>}

InitRun ==
    /\ ShardIdle
    /\ schemas = {}
    /\ tablesIn = {}
    /\ customizeRuns = 0
    /\ ScopeIdle
    /\ TxIdle
    /\ GocIdle
    /\ ConnIdle
    /\ BatchIdle
    /\ table = {}
    /\ fs = {}
    /\ project \in {[NoProject EXCEPT !.pipeline = p] : p \in RunPipelines}
    /\ joblist = NoJoblist
    /\ runJobs = NoRunJobs
    /\ loaded = NoLoaded
    /\ logFiles = {}
    /\ logOut = NoLogOut
    /\ dropOp = [c \in Callers |-> NoDrop]
    /\ listed = NoListed
    /\ EngIdle
    /\ PoolIdle
    /\ jobRun = NoJobRun

NextRun ==
    \/ \E job_id \in 1..MaxJobs, checked \in BOOLEAN : StartJob(job_id, checked)
    \/ \E prepared \in BOOLEAN, captured_out \in CapturedOut, captured_err \in CapturedErr,
          e \in ModuleExceptions :
             RunModule(prepared, captured_out, captured_err, e)

SpecRun == InitRun /\ [][NextRun]_vars

\* the runs of modules that reported a failure
FailedRuns == {i \in 1..Len(jobRun.executed) : ~jobRun.executed[i].success}

RewriteSets ==
    {[run |-> [k \in 1..n |-> RunBatch(k, i, List(<<Str(PathB)>>))], collect |-> c] :
        n \in 0..MaxJobs,
        i \in {List(<<Str(PathA)>>), List(<<Str(PathB)>>)},
        c \in {<< >>, <<CollectBatch(List(<<Str(PathB)>>), List(<<Str(PathA)>>))>>}}

\* the caller holds the batches of the next write_batch_files call of the step
NewBatches(bs) ==
    /\ bpc = "written"
    /\ bpc' = "init"
    /\ given' = bs
    /\ batches' = bs
    /\ batchErr' = NoValue
    /\ UNCHANGED <<batchFiles, readBack>>
    /\ UNCHANGED <<apiVars, extVars, connVars, delVars, shardVars, schemaVars, scopeVars,
                   txVars, dbVars, histVars, gocVars>>

InitRewrite ==
    /\ ShardIdle
    /\ schemas = {}
    /\ tablesIn = {}
    /\ customizeRuns = 0
    /\ ScopeIdle
    /\ TxIdle
    /\ GocIdle
    /\ ConnIdle
    /\ ExtIdle
    /\ ApiIdle
    /\ table = {}
    /\ fs = {}
    /\ given \in RewriteSets
    /\ batches = given
    /\ batchFiles = {}
    /\ readBack = NoRead
    /\ batchErr = NoValue
    /\ bpc = "init"

NextRewrite ==
    \/ write_batch_files
    \/ \E bs \in RewriteSets : NewBatches(bs)
    \/ \E order \in FileOrders : get_batches_from_files(order)

SpecRewrite == InitRewrite /\ [][NextRewrite]_vars

\* a batch as it is read back from the file it was written to
WrittenAndRead(batch) == make_paths_absolute(make_paths_relative(batch))

\* C27: a get_batches_from_files call that follows a write_batch_files call
\* returns the batches of that write and no other: the run batches are those of
\* the batches last written, and there is a collect batch exactly if the batches
\* last written have one.
C27_OnlyLatestWriteReturned ==
    [][(loaded' # loaded /\ bpc = "written" /\ loaded'.raised = NoValue) =>
          /\ Range(loaded'.run) = {WrittenAndRead(b) : b \in Range(given.run)}
          /\ Range(loaded'.collect) = {WrittenAndRead(b) : b \in Range(given.collect)}]_vars

(***************************************************************************)
(* get_or_create and the other changes of the session.                     *)
(***************************************************************************)
\* the instances c added in the body of its open scope, apart from get_or_create
AddedInBody(c) == {r \in scopeRows[c] : r.cls = "Submission"}

\* C28: get_or_create leaves the other pending changes of the session alone: an
\* instance a caller added in the body of its open scope is pending in the
\* session or persisted, whatever get_or_create calls the caller made since,
\* the ones that roll back and read again included.
C28_PendingChangesSurviveGetOrCreate ==
    \A c \in Callers :
       pc[c] = "open" => AddedInBody(c) \subseteq (txIns[c] \cup table)

(***************************************************************************)
(* The search path of the connection of a main session.                    *)
(***************************************************************************)
\* C29: a main session is bound to the global schema only: the connection of an
\* open MainSession scope has no schema of an experiment in its search path,
\* whatever scope held the connection before it went back to the pool.
C29_MainSessionOnGlobalSchema ==
    \A c \in Callers :
       (pc[c] = "open" /\ kind[c] = "MainSession") => searchPath[c].now = DefaultPath

(***************************************************************************)
(* Entering a scope after a first entry that failed part-way.              *)
(***************************************************************************)
\* what the first entry of a scope of the experiment sets up after the schema
Initialized == ExpId \in tablesIn /\ Customized

\* a caller is between CREATE SCHEMA and the end of the customization
Initializing(c) == pc[c] \in {"create_schema", "create_tables", "customize"}

\* the schema is there, what follows it is not, and nobody is at work on it: an
\* entry made the schema and left before the tables or the customization were done
LeftHalfway ==
    /\ ExpId \in schemas
    /\ ~Initialized
    /\ \A c \in Callers : ~Initializing(c)

\* C30: an initialization that was left half-way is not taken for a complete one:
\* the entry of an experiment session or connection that finds the schema of such
\* an initialization does not go on to the search path with the tables or the
\* customization missing.
C30_HalfwayInitializationNotSkipped ==
    [][\A c \in Callers :
          (LeftHalfway /\ pc[c] = "select_exists") => pc'[c] # "set_search_path"]_vars

====
